---- MODULE Spec2Model ----
(***************************************************************************)
(* pprox: a PostgreSQL wire-protocol proxy.  One client session            *)
(* (ClientHandler), the Router that classifies each statement, the         *)
(* one-shot reader dispatch and the multi-writer fan-out                   *)
(* (Router.ExecuteWriteWithParams).                                        *)
(***************************************************************************)
EXTENDS Integers, Sequences, FiniteSets, TLC

(***************************************************************************)
(* Bounds of the model.                                                    *)
(***************************************************************************)
\* number of writer DSNs in PG_WRITERS_CSV
NumWriters == 2
\* rows of a reader result set
MaxRows == 2
\* ErrorResponses after which the client ends the group it is in
MaxGroupErr == 2
\* bytes of a SHA-256 digest
HashLen == 2

(***************************************************************************)
(* Strings are sequences of one-character strings, so that TrimSpace,      *)
(* ToUpper and HasPrefix are computed as the Go library computes them.     *)
(***************************************************************************)
LowerLetters == <<"a", "b", "c", "d", "e", "f", "g", "h", "i", "j", "k", "l", "m", "n", "o", "p", "q", "r", "s", "t", "u", "v", "w", "x", "y", "z">>

UpperLetters == <<"A", "B", "C", "D", "E", "F", "G", "H", "I", "J", "K", "L", "M", "N", "O", "P", "Q", "R", "S", "T", "U", "V", "W", "X", "Y", "Z">>

\* unicode.IsSpace restricted to the ASCII characters of the model
WhiteSpace == {" ", "\t", "\n", "\r"}

IsLetter(c) == \E i \in 1..26 : LowerLetters[i] = c \/ UpperLetters[i] = c

ToUpperChar(c) ==
  IF \E i \in 1..26 : LowerLetters[i] = c
  THEN UpperLetters[CHOOSE i \in 1..26 : LowerLetters[i] = c]
  ELSE c

\* strings.ToUpper
ToUpper(s) == [i \in 1..Len(s) |-> ToUpperChar(s[i])]

\* number of leading white-space characters of s
LeadingSpaces(s) ==
  IF \A i \in 1..Len(s) : s[i] \in WhiteSpace THEN Len(s)
  ELSE (CHOOSE i \in 1..Len(s) :
          s[i] \notin WhiteSpace /\ \A j \in 1..(i-1) : s[j] \in WhiteSpace) - 1

\* number of trailing white-space characters of s
TrailingSpaces(s) ==
  IF \A i \in 1..Len(s) : s[i] \in WhiteSpace THEN Len(s)
  ELSE Len(s) - (CHOOSE i \in 1..Len(s) :
          s[i] \notin WhiteSpace /\ \A j \in (i+1)..Len(s) : s[j] \in WhiteSpace)

\* strings.TrimSpace: leading and trailing white space removed
TrimSpace(s) ==
  IF LeadingSpaces(s) = Len(s) THEN <<>>
  ELSE SubSeq(s, LeadingSpaces(s) + 1, Len(s) - TrailingSpaces(s))

\* strings.HasPrefix
HasPrefix(s, p) == Len(s) >= Len(p) /\ SubSeq(s, 1, Len(p)) = p

KwSELECT == <<"S", "E", "L", "E", "C", "T">>
KwSHOW == <<"S", "H", "O", "W">>
KwEXPLAIN == <<"E", "X", "P", "L", "A", "I", "N">>
ReadKeywords == {KwSELECT, KwSHOW, KwEXPLAIN}

QueryTypeRead == "read"
QueryTypeWrite == "write"

\* a classifier that forgets strings.ToUpper
ClassifyQuery_CaseSensitive(sql) ==
  IF \E kw \in ReadKeywords : HasPrefix(TrimSpace(sql), kw)
  THEN QueryTypeRead ELSE QueryTypeWrite

\* ClassifyQuery: read when the trimmed, upper-cased text starts with SELECT,
\* SHOW or EXPLAIN; everything else is a write
ClassifyQuery(sql) ==
  LET trimmed == TrimSpace(sql)
      upper == ToUpper(trimmed)
  IN IF HasPrefix(upper, KwSELECT) \/ HasPrefix(upper, KwSHOW)
        \/ HasPrefix(upper, KwEXPLAIN)
     THEN QueryTypeRead
     ELSE QueryTypeWrite

(***************************************************************************)
(* SQL texts fed to the classifier: padding, a first word in several       *)
(* casings, a tail.                                                        *)
(***************************************************************************)
SqlPads == {<<>>, <<" ">>, <<"\t", " ">>, <<"\n">>}

SqlWords ==
      {<<"s", "e", "l", "e", "c", "t">>,
       <<"S", "E", "L", "E", "C", "T">>,
       <<"s", "e", "L", "E", "C", "T">>,
       <<"s", "h", "o", "w">>,
       <<"S", "H", "O", "W">>,
       <<"S", "h", "o", "w">>,
       <<"e", "x", "p", "l", "a", "i", "n">>,
       <<"E", "X", "P", "L", "A", "I", "N">>,
       <<"e", "X", "p", "l", "a", "i", "n">>,
       <<"w", "i", "t", "h">>,
       <<"W", "I", "T", "H">>,
       <<"i", "n", "s", "e", "r", "t">>,
       <<"I", "N", "S", "E", "R", "T">>,
       <<"u", "p", "d", "a", "t", "e">>,
       <<"s", "e", "l">>,
       <<"S", "H", "O">>,
       <<>>,
       <<"s", "e", "l", "e", "c", " ", "t">>,
       <<"(", "s", "e", "l", "e", "c", "t">>}

SqlTails == {<<>>, <<" ", "1">>, <<"x">>, <<"E", "D", " ", "x">>, <<"(", "1", ")">>, <<" ">>}

SqlInputs == {p \o w \o t : p \in SqlPads, w \in SqlWords, t \in SqlTails}


(***************************************************************************)
(* Configuration (Config, LoadConfig) and the inputs of a session.         *)
(***************************************************************************)
\* Config.WriterDSNs: the ordered, non-empty list of writers
WriterDSNs == [i \in 1..NumWriters |-> i]

Writers == 1..NumWriters

\* "  show x": a read with leading white space and lower case
SqlShow == <<" ", "s", "h", "o", "w", " ", "x">>

\* INSERT
SqlInsert == <<"I", "N", "S", "E", "R", "T">>

\* the statements a client sends in the session model
SessionSqls == {SqlShow, SqlInsert}

\* prepared-statement names: the unnamed statement and one named statement
StmtNames == {"", "s1"}

\* portal names: the unnamed portal and one named portal
PortalNames == {"", "p1"}

\* Go map operations on preparedStmts and portals
MapPut(m, k, v) == [n \in (DOMAIN m) \cup {k} |-> IF n = k THEN v ELSE m[n]]

\* delete leaving the entry in place
MapDelete_Keep(m, k) == m

MapDelete(m, k) == [n \in (DOMAIN m) \ {k} |-> m[n]]

EmptyMap == <<>>

(***************************************************************************)
(* Messages written to the client (pgproto3 messages and raw bytes).       *)
(***************************************************************************)
Msg(t) == [type |-> t, sev |-> "", code |-> "", text |-> "", cause |-> "",
           writer |-> 0, n |-> 0]

\* sendError: severity ERROR, code XX000, the message text; cause and writer
\* are the parts of the wrapped error the text is formatted from
ErrorResponse(text, cause, w) ==
  [Msg("ErrorResponse") EXCEPT !.sev = "ERROR", !.code = "XX000",
                               !.text = text, !.cause = cause, !.writer = w]

\* sendReadyForQuery('I')
ReadyForQuery == [Msg("ReadyForQuery") EXCEPT !.text = "I"]

\* CommandComplete with tag "SELECT <n>"
SelectComplete(n) == [Msg("CommandComplete") EXCEPT !.text = "SELECT", !.n = n]

\* CommandComplete with tag "OK"
OkComplete == [Msg("CommandComplete") EXCEPT !.text = "OK"]

\* the error returned by ExecuteWriteWithParams: nil or [cause, writer]
NoError == [cause |-> "", writer |-> 0]

WriteError(cause, w) == [cause |-> cause, writer |-> w]

Count(seq, t) == Cardinality({i \in 1..Len(seq) : seq[i].type = t})

VARIABLES
  pc,                \* position of the session: startup, ready, a fan-out phase, closed
  authenticated,     \* ClientHandler.authenticated
  username,          \* ClientHandler.username
  preparedStmts,     \* ClientHandler.preparedStmts
  portals,           \* ClientHandler.portals
  users,             \* Config.AuthConfig.Users (user names)
  cmUsers,           \* CredentialManager.authConfig.Users (user names)
  reloadLog,         \* the last run of LoadCredentials and the state of the reload loop
  out,               \* messages written to the client while handling the current message
  cur,               \* the message being handled: kind, statement text, route taken
  ctxDone,           \* the 5 s context of the current handler has expired
  successfulWriters, \* ExecuteWriteWithParams: successfulWriters
  writersWithTx,     \* ExecuteWriteWithParams: writersWithTx
  failedWriters,     \* ExecuteWriteWithParams: failedWriters
  fi,                \* ExecuteWriteWithParams: index of the running loop
  conn,              \* per writer: backend connection of the current fan-out
  tx,                \* per writer: transaction of the current fan-out
  execd,             \* writers the statement was sent to by the current handler
  readerConn,        \* reader connection of the current handler
  readerLog,         \* statements sent to the reader by the current handler
  grpRFQ,            \* ReadyForQuery messages emitted since the last Query or Sync
                     \* (the one that closed the group included)
  grpErr,            \* ErrorResponse messages emitted since the last Query or Sync
  failedAt,          \* phase in which the last fan-out failed (none: it did not)
  grpClosed,         \* the last message handled closed a group: startup, Query, Sync
  cq,                \* classifier under test: input text and result
  rp,                \* read portal under test: backend outcome, row cap, reply
  ef,                \* credential file under test: data, keys, file bytes, result
  heap,              \* the maps allocated by make(), by address
  handlers,          \* the ClientHandler of each accepted connection
  tlsEnabled,        \* Config.TLSConfig.Enabled
  tlsState,          \* ClientHandler.tlsState
  startupUser,       \* the user parameter of the StartupMessage received
  scram,             \* SCRAMServer of the running exchange: user, nonces
  authLog,           \* the SCRAM step last processed, its input and how it ended
  stmtLog            \* the Parse just handled, or the Parse and the Close that
                     \* followed it: the name, and preparedStmts before the Parse

vars == <<pc, authenticated, username, preparedStmts, portals, users, cmUsers, reloadLog, out, cur,
          ctxDone, successfulWriters, writersWithTx, failedWriters, fi, conn, tx,
          execd, readerConn, readerLog, grpRFQ, grpErr, failedAt, grpClosed, cq, rp, ef, heap, handlers,
          tlsEnabled, tlsState, startupUser, scram, authLog, stmtLog>>

sessVars == <<authenticated, username, preparedStmts, portals, users, cmUsers,
             reloadLog>>

fanVars == <<successfulWriters, writersWithTx, failedWriters, fi, conn, tx, execd,
            failedAt>>

readVars == <<readerConn, readerLog>>

grpVars == <<grpRFQ, grpErr, grpClosed>>

authVars == <<tlsEnabled, tlsState, startupUser, scram, authLog>>

NoMessage == [kind |-> "none", sql |-> <<>>, route |-> "none"]

\* NewClientHandler: empty maps, not authenticated; no backend work in progress
InitSession ==
  /\ pc = "startup"
  /\ authenticated = FALSE
  /\ username = ""
  /\ preparedStmts = EmptyMap
  /\ portals = EmptyMap
  /\ out = <<>>
  /\ cur = NoMessage
  /\ ctxDone = FALSE
  /\ successfulWriters = <<>>
  /\ writersWithTx = <<>>
  /\ failedWriters = <<>>
  /\ fi = 0
  /\ conn = [w \in Writers |-> "none"]
  /\ tx = [w \in Writers |-> "none"]
  /\ execd = {}
  /\ readerConn = "none"
  /\ readerLog = <<>>
  /\ grpRFQ = 0
  /\ grpErr = 0
  /\ failedAt = "none"
  /\ grpClosed = FALSE
  /\ tlsState = [present |-> FALSE, PeerCertificates |-> <<>>]
  /\ startupUser = ""
  /\ scram = [user |-> "", clientNonce |-> <<>>, serverNonce |-> <<>>,
              clientFirstMsg |-> <<>>]
  /\ authLog = [step |-> "none", msg |-> <<>>, outcome |-> "none",
                server |-> [user |-> "", clientNonce |-> <<>>, serverNonce |-> <<>>,
                            clientFirstMsg |-> <<>>]]
  /\ stmtLog = [stage |-> "none", name |-> "", before |-> <<>>]

\* the reload loop started by loadAuthConfig, no tick yet
NoReload == [outcome |-> "none", before |-> {}, loop |-> "running"]

NoReadPortal == [o |-> [fail |-> "none", fields |-> 0, rows |-> 0, at |-> 0],
                 maxRows |-> 0, reply |-> <<>>, done |-> FALSE, delivered |-> <<>>]

(***************************************************************************)
(* Accepted connections: main's accept loop gives every connection its own  *)
(* ClientHandler, whose maps are objects on the heap.                       *)
(***************************************************************************)
\* connections a client may open
Conns == {"c1", "c2"}

NoHandler == [state |-> "none", preparedStmts |-> 0, portals |-> 0, out |-> <<>>,
              alone |-> [preparedStmts |-> EmptyMap, portals |-> EmptyMap, out |-> <<>>]]

\* nothing accepted yet
NoConnections ==
  /\ heap = <<>>
  /\ handlers = [c \in Conns |-> NoHandler]

\* a handler constructor that hands every handler the first maps allocated
NewClientHandler_SharedMaps(h) ==
  [heap |-> h \o <<EmptyMap, EmptyMap>>,
   handler |-> [NoHandler EXCEPT !.state = "startup", !.preparedStmts = 1, !.portals = 2]]

\* NewClientHandler: two fresh maps, the handler holds their addresses
NewClientHandler(h) ==
  [heap |-> h \o <<EmptyMap, EmptyMap>>,
   handler |-> [NoHandler EXCEPT !.state = "startup", !.preparedStmts = Len(h) + 1,
                                 !.portals = Len(h) + 2]]

(***************************************************************************)
(* The credential-file envelope: AES-256-GCM, the nonce in front of the     *)
(* sealed bytes.  AES-GCM is taken as ideal: a sealed byte names the key,   *)
(* nonce, position and plaintext byte it was made from, and the tag names   *)
(* the key, nonce and sealed bytes it authenticates.  Sizes are scaled:     *)
(* KeySize stands for the 32 bytes of the key, NonceSize for the 12 of      *)
(* gcm.NonceSize(), one element for the 16 tag bytes.                       *)
(***************************************************************************)
KeySize == 2
NonceSize == 1
MaxData == 1

\* the zero byte a fresh Go slice is filled with
Nul == "00"

\* key := make([]byte, 32); copy(key, []byte(encryptionKey)): the first 32
\* bytes of the string, a shorter string filled up with zero bytes
DeriveKey(k) == [i \in 1..KeySize |-> IF i <= Len(k) THEN k[i] ELSE Nul]

\* the authentication tag of gcm.Seal
GcmTag(key, nonce, body) == [tag |-> <<key, nonce, body>>]

\* gcm.Seal(nonce, nonce, data, nil): nonce, encrypted bytes, tag
Seal(key, nonce, data) ==
  LET body == [i \in 1..Len(data) |-> [key |-> key, nonce |-> nonce, i |-> i, p |-> data[i]]]
  IN nonce \o body \o <<GcmTag(key, nonce, body)>>

\* decrypt / decryptFile: split off the nonce, gcm.Open the rest
Open(key, file) ==
  IF Len(file) < NonceSize
  THEN [err |-> "ciphertext too short", plaintext |-> <<>>]
  ELSE LET nonce == SubSeq(file, 1, NonceSize)
           rest == SubSeq(file, NonceSize + 1, Len(file))
           body == SubSeq(rest, 1, Len(rest) - 1)
       IN IF Len(rest) < 1 \/ rest[Len(rest)] # GcmTag(key, nonce, body)
          THEN [err |-> "message authentication failed", plaintext |-> <<>>]
          ELSE [err |-> "", plaintext |-> [i \in 1..Len(body) |-> body[i].p]]

NoEnvelope == [data |-> <<>>, encKey |-> <<>>, decKey |-> <<>>, file |-> <<>>,
               tampered |-> FALSE, stage |-> "none",
               result |-> [err |-> "", plaintext |-> <<>>]]

\* a proxy configured without credentials (trust mode) and without TLS
Init ==
  /\ InitSession
  /\ users = {}
  /\ cmUsers = users
  /\ reloadLog = NoReload
  /\ tlsEnabled = FALSE
  /\ cq = [sql |-> <<>>, result |-> "none"]
  /\ rp = NoReadPortal
  /\ ef = NoEnvelope
  /\ NoConnections


(***************************************************************************)
(* Accounting of extended-query groups (history of the session's output).  *)
(***************************************************************************)
BaseRFQ == IF grpClosed THEN 0 ELSE grpRFQ

BaseErr == IF grpClosed THEN 0 ELSE grpErr

NoStmtLog == [stage |-> "none", name |-> "", before |-> <<>>]

\* the message handled is no Parse, and no Close of the statement just parsed
ForgetParse == stmtLog' = NoStmtLog

\* a handler whose receive loop starts without waiting for handleStartup
CanReceive_BeforeStartup == pc \in {"startup", "ready"} /\ BaseErr < MaxGroupErr

\* the receive loop is about to read a message
CanReceive == pc = "ready" /\ BaseErr < MaxGroupErr

\* a message was read; a simple Query closes the group it is in
Received(simple) == grpClosed' = simple

\* the handler of the message just read wrote ms and returned
Reply(ms) ==
  /\ out' = ms
  /\ grpRFQ' = BaseRFQ + Count(ms, "ReadyForQuery")
  /\ grpErr' = BaseErr + Count(ms, "ErrorResponse")

\* the locals of the previous handler are gone
ResetFan ==
  /\ successfulWriters' = <<>>
  /\ writersWithTx' = <<>>
  /\ failedWriters' = <<>>
  /\ fi' = 0
  /\ conn' = [w \in Writers |-> "none"]
  /\ tx' = [w \in Writers |-> "none"]
  /\ execd' = {}
  /\ failedAt' = "none"

ResetRead == readerConn' = "none" /\ readerLog' = <<>>

(***************************************************************************)
(* Credentials and SCRAM-SHA-256 (SCRAMServer).  A SCRAM message is the    *)
(* sequence of its comma-separated parts; a part is its two-character      *)
(* prefix, its value as a sequence of symbols, and whether the value is    *)
(* valid base64.  Digests are sequences of HashLen symbols "0"/"1"; SHA-256 *)
(* is collision-free and HMAC an arbitrary fixed keyed function.           *)
(***************************************************************************)
Part(p, v, ok) == [p |-> p, v |-> v, b64ok |-> ok]

\* the value of an absent field: the empty string
NoPart(p) == Part(p, <<>>, TRUE)

SetMax(S) == CHOOSE x \in S : \A y \in S : y <= x

SetMin(S) == CHOOSE x \in S : \A y \in S : x <= y

Bits == {"0", "1"}

\* byte-wise exclusive or
Xor(a, b) == IF a = b THEN "0" ELSE "1"

XorBytes(a, b) == [i \in 1..Len(a) |-> Xor(a[i], b[i])]

\* sha256.Sum256
Sha256(bytes) == [sha256 |-> bytes]

\* how many parts of msg carry the symbol "s2": makes the digest below depend
\* on the message
MsgWeight(msg) ==
  Cardinality({j \in 1..Len(msg) : \E k \in 1..Len(msg[j].v) : msg[j].v[k] = "s2"})

\* hmac.New(sha256.New, key) over msg, key a sequence of digest symbols
HmacSha256(key, msg) ==
  LET kw == Cardinality({i \in 1..Len(key) : key[i] = "1"})
  IN [i \in 1..HashLen |-> IF (i + kw + MsgWeight(msg)) % 2 = 0 THEN "0" ELSE "1"]

\* the passwords the credential provider holds
Passwords == [u \in {"alice", "bob"} |-> IF u = "alice" THEN "wonderland" ELSE "rabbit"]

\* HMAC(PBKDF2(password, salt, 4096), "Client Key")
ClientKey(password) ==
  [i \in 1..HashLen |-> IF password = "wonderland" \/ i % 2 = 1 THEN "1" ELSE "0"]

\* HMAC(PBKDF2(password, salt, 4096), "Server Key")
ServerKey(password) ==
  [i \in 1..HashLen |-> IF password = "wonderland" \/ i % 2 = 0 THEN "0" ELSE "1"]

\* AuthConfig.AddUser: the verifier computed from the password, and the
\* password itself
AddUser(name, password) ==
  [Username |-> name, Password |-> password, Salt |-> "salt",
   StoredKey |-> Sha256(ClientKey(password)), ServerKey |-> ServerKey(password),
   IterationCount |-> "4096"]

\* AuthConfig.GetUser on the store holding the users of names
GetUser(names, name) ==
  [exists |-> name \in names,
   user |-> IF name \in names THEN AddUser(name, Passwords[name])
            ELSE AddUser("", "")]

\* tls.ConnectionState of the session: none on a plaintext connection; the
\* proxy's tls.Config requests no client certificate
NoTLS == [present |-> FALSE, PeerCertificates |-> <<>>]

ServerTLS == [present |-> TRUE, PeerCertificates |-> <<>>]

\* the certificate the proxy presents
ServerCert == "serverCert"

\* sha256.Sum256(cert.Raw)
CertHash(cert) == [i \in 1..HashLen |-> cert]

Gs2None == <<"n", ",", ",">>

Gs2TlsServerEndPoint ==
  <<"p", "=", "t", "l", "s", "-", "s", "e", "r", "v", "e", "r", "-", "e", "n", "d",
    "-", "p", "o", "i", "n", "t", ",", ",">>

\* NewSCRAMServer, and the SCRAMServer of a session outside the exchange
NewSCRAMServer(name) ==
  [user |-> name, clientNonce |-> <<>>, serverNonce |-> <<>>,
   clientFirstMsg |-> <<>>]

NoScram == NewSCRAMServer("")

NoAuthLog == [step |-> "none", msg |-> <<>>, outcome |-> "none", server |-> NoScram]

\* the first part of parts that starts with p (the loop breaks on it)
FirstField(parts, p) ==
  LET idx == {i \in 1..Len(parts) : parts[i].p = p}
  IN IF idx = {} THEN NoPart(p) ELSE parts[SetMin(idx)]

\* the last part of parts that starts with p (the loop keeps assigning)
LastField(parts, p) ==
  LET idx == {i \in 1..Len(parts) : parts[i].p = p}
  IN IF idx = {} THEN NoPart(p) ELSE parts[SetMax(idx)]

\* SCRAMServer.HandleClientFirst: the error, or "" and the client nonce
HandleClientFirst(parts) ==
  IF Len(parts) < 3
  THEN [err |-> "invalid client-first-message format", clientNonce |-> <<>>]
  ELSE IF FirstField(parts, "r=").v = <<>>
  THEN [err |-> "client nonce not found", clientNonce |-> <<>>]
  ELSE [err |-> "", clientNonce |-> FirstField(parts, "r=").v]

\* the server-first-message r=<nonce>,s=<salt>,i=<iterations>
ServerFirstMsg(s, user) ==
  <<Part("r=", s.clientNonce \o s.serverNonce, TRUE), Part("s=", <<user.Salt>>, TRUE),
    Part("i=", <<user.IterationCount>>, TRUE)>>

\* getClientFirstBare: what follows the GS2 header
getClientFirstBare(s) ==
  IF Len(s.clientFirstMsg) >= 3 THEN SubSeq(s.clientFirstMsg, 3, Len(s.clientFirstMsg))
  ELSE s.clientFirstMsg

\* getClientFinalWithoutProof: cut at the last ",p="
getClientFinalWithoutProof(parts) ==
  LET idx == {i \in 2..Len(parts) : parts[i].p = "p="}
  IN IF idx = {} THEN parts ELSE SubSeq(parts, 1, SetMax(idx) - 1)

\* the auth message of the exchange
AuthMessage(s, user, final) ==
  getClientFirstBare(s) \o ServerFirstMsg(s, user) \o getClientFinalWithoutProof(final)

\* SCRAMServer.verifyChannelBinding: "" when accepted, else the error
verifyChannelBinding(cb, tls) ==
  IF ~cb.b64ok THEN "failed to decode channel binding"
  ELSE IF Len(cb.v) < 3 THEN "channel binding data too short"
  ELSE IF tls.present /\ Len(tls.PeerCertificates) > 0
  THEN IF HasPrefix(cb.v, Gs2TlsServerEndPoint)
       THEN IF cb.v # Gs2TlsServerEndPoint \o CertHash(tls.PeerCertificates[1])
            THEN "channel binding hash mismatch"
            ELSE ""
       ELSE ""
  ELSE IF cb.v # Gs2None THEN "channel binding not supported without TLS"
  ELSE ""

\* SCRAMServer.HandleClientFinal: "ok", the error returned, or "panic" when
\* the proof is longer than the signature it is combined with (index out of
\* range)
HandleClientFinal(s, user, parts, tls) ==
  LET proof == LastField(parts, "p=")
      sig == HmacSha256(user.StoredKey.sha256, AuthMessage(s, user, parts))
  IN IF Len(parts) < 3 THEN "invalid client-final-message format"
     ELSE IF LastField(parts, "r=").v # s.clientNonce \o s.serverNonce
     THEN "nonce mismatch"
     ELSE IF verifyChannelBinding(LastField(parts, "c="), tls) # ""
     THEN "channel binding verification failed"
     ELSE IF ~proof.b64ok THEN "failed to decode client proof"
     ELSE IF Len(proof.v) > Len(sig) THEN "panic"
     ELSE IF Sha256(XorBytes(proof.v, sig)) # user.StoredKey
     THEN "authentication failed: invalid credentials"
     ELSE "ok"

(***************************************************************************)
(* Startup and authentication.                                             *)
(***************************************************************************)
\* parameters of a StartupMessage
StartupParams ==
  {[k \in {"user"} |-> "alice"], [k \in {"user"} |-> ""],
   [k \in {"database"} |-> "alice"]}

\* handleStartup taking the user name from the database parameter
UserParam_Database(params) ==
  IF "database" \in DOMAIN params THEN params["database"] ELSE ""

\* handleStartup: the value of the "user" parameter, "" when there is none
UserParam(params) ==
  IF "user" \in DOMAIN params THEN params["user"] ELSE ""

\* handleStartup asking for SCRAM only from the users the store holds
AuthRequired_KnownUser(names, user) == user \in names

\* handleStartup: authentication is required unless the store is empty
AuthRequired(names, user) == names # {}

\* the fatal error of a failed authentication
AuthError ==
  [Msg("ErrorResponse") EXCEPT !.sev = "FATAL", !.code = "28P01",
                               !.text = "password authentication failed for user"]

\* sendAuthenticationOk: AuthenticationOk, then ReadyForQuery('I')
AuthenticationOk == <<Msg("AuthenticationOk"), ReadyForQuery>>

\* the session enters the receive loop, or ends, after the messages ms
EnterLoop(ms) ==
  /\ out' = ms
  /\ pc' = "ready"
  /\ grpClosed' = TRUE
  /\ UNCHANGED <<grpRFQ, grpErr>>

EndSession(ms) ==
  /\ out' = ms
  /\ pc' = "closed"
  /\ UNCHANGED grpVars

SSLReply_AlwaysN(enabled) == Msg("N")

\* the single byte written in answer to an SSLRequest
SSLReply(enabled) == IF enabled THEN Msg("S") ELSE Msg("N")

\* handleStartup, SSLRequest: 'S' and the TLS handshake when TLS is
\* configured, 'N' otherwise; then the startup packet is read again
HandleSSLRequest ==
  /\ pc = "startup"
  /\ cur' = [kind |-> "SSLRequest", sql |-> <<>>, route |-> "none"]
  /\ out' = <<SSLReply(tlsEnabled)>>
  /\ IF tlsEnabled
     THEN \E handshake \in {"ok", "failed"} :
            IF handshake = "ok"
            THEN pc' = "startup2" /\ tlsState' = ServerTLS
            ELSE pc' = "closed" /\ UNCHANGED tlsState
     ELSE /\ pc' = "startup2"
          /\ UNCHANGED tlsState
  /\ UNCHANGED <<sessVars, ctxDone, fanVars, readVars, grpVars, cq, rp, ef, heap, handlers, tlsEnabled,
                 startupUser, scram, authLog, stmtLog>>

\* handleStartup, the startup packet: anything but a StartupMessage with a
\* user ends the session; trust mode when no credentials are configured;
\* otherwise performSCRAMAuth looks the user up and advertises SCRAM-SHA-256
HandleStartup ==
  /\ pc \in {"startup", "startup2"}
  /\ cur' = [kind |-> "Startup", sql |-> <<>>, route |-> "none"]
  /\ \E first \in {"StartupMessage", "CancelRequest"}, params \in StartupParams :
       IF first # "StartupMessage" \/ UserParam(params) = ""
       THEN /\ EndSession(<<>>)
            /\ UNCHANGED <<authenticated, username, startupUser, scram>>
       ELSE /\ username' = UserParam(params)
            /\ startupUser' = IF "user" \in DOMAIN params THEN params["user"] ELSE ""
            /\ IF ~AuthRequired(users, UserParam(params))
               THEN /\ authenticated' = TRUE
                    /\ EnterLoop(AuthenticationOk)
                    /\ UNCHANGED scram
               ELSE /\ UNCHANGED authenticated
                    /\ IF GetUser(users, UserParam(params)).exists
                       THEN /\ out' = <<Msg("AuthenticationSASL")>>
                            /\ pc' = "saslInitial"
                            /\ scram' = NewSCRAMServer(UserParam(params))
                            /\ UNCHANGED grpVars
                       ELSE /\ EndSession(<<>>)
                            /\ UNCHANGED scram
  /\ UNCHANGED <<preparedStmts, portals, users, cmUsers, reloadLog, ctxDone, fanVars, readVars, cq, rp, ef, heap, handlers,
                 tlsEnabled, tlsState, authLog, stmtLog>>

ClientNonce == <<"c1">>

\* the nonces HandleClientFirst may draw
ServerNonces == {<<"s1">>, <<"s2">>}

\* client-first-messages: well formed, too few parts, without a nonce, with
\* an empty nonce
ClientFirstInputs ==
  LET gs2 == <<Part("", <<"n">>, TRUE), Part("", <<>>, TRUE)>>
      name == Part("n=", <<"alice">>, TRUE)
  IN {gs2 \o <<name, Part("r=", ClientNonce, TRUE)>>,
      <<Part("", <<"n">>, TRUE), Part("r=", ClientNonce, TRUE)>>,
      gs2 \o <<name>>,
      gs2 \o <<name, Part("r=", <<>>, TRUE)>>}

\* what the proxy may read in place of the client-first-message
SASLInitialInputs ==
  {[kind |-> "SASLInitialResponse", mechanism |-> "SCRAM-SHA-256", data |-> d] :
     d \in ClientFirstInputs}
  \cup {[kind |-> "SASLInitialResponse", mechanism |-> "PLAIN", data |-> <<>>],
        [kind |-> "PasswordMessage", mechanism |-> "", data |-> <<>>],
        [kind |-> "EOF", mechanism |-> "", data |-> <<>>]}

\* performSCRAMAuth, client-first-message: on any failure the function
\* returns its error and the session is closed
HandleSASLInitial ==
  /\ pc = "saslInitial"
  /\ \E in \in SASLInitialInputs, sn \in ServerNonces :
       LET r == HandleClientFirst(in.data)
           err == IF in.kind = "EOF" THEN "failed to receive SASL initial response"
                  ELSE IF in.kind # "SASLInitialResponse"
                  THEN "expected SASLInitialResponse"
                  ELSE IF in.mechanism # "SCRAM-SHA-256"
                  THEN "unsupported auth mechanism"
                  ELSE r.err
       IN /\ cur' = [kind |-> in.kind, sql |-> <<>>, route |-> "none"]
          /\ authLog' = [step |-> "first", msg |-> in.data, server |-> scram,
                         outcome |-> IF err = "" THEN "ok" ELSE err]
          /\ IF err = ""
             THEN /\ scram' = [scram EXCEPT !.clientFirstMsg = in.data,
                                            !.clientNonce = r.clientNonce,
                                            !.serverNonce = sn]
                  /\ out' = <<Msg("AuthenticationSASLContinue")>>
                  /\ pc' = "saslFinal"
                  /\ UNCHANGED grpVars
             ELSE /\ scram' = NoScram
                  /\ EndSession(<<>>)
  /\ UNCHANGED <<sessVars, ctxDone, fanVars, readVars, cq, rp, ef, heap, handlers, tlsEnabled, tlsState,
                 startupUser, stmtLog>>

\* channel-binding values of a client-final-message: none, none with
\* trailing data, the server certificate's hash, another hash, another
\* header, too short, not base64
CbInputs ==
  {Part("c=", Gs2None, TRUE), Part("c=", Gs2None \o <<"x">>, TRUE),
   Part("c=", Gs2TlsServerEndPoint \o CertHash(ServerCert), TRUE),
   Part("c=", Gs2TlsServerEndPoint \o CertHash("otherCert"), TRUE),
   Part("c=", <<"y", ",", ",">>, TRUE), Part("c=", <<"n", ",">>, TRUE),
   Part("c=", <<>>, FALSE)}

\* proofs of a client-final-message: every string of up to HashLen + 1 bytes,
\* and one that is not base64
ProofInputs ==
  {Part("p=", v, TRUE) : v \in UNION {[1..n -> Bits] : n \in 0..(HashLen + 1)}}
  \cup {Part("p=", <<>>, FALSE)}

\* client-final-messages, and one of too few parts
ClientFinalInputs ==
  {<<cb, Part("r=", ClientNonce \o sn, TRUE), proof>> :
     cb \in CbInputs, sn \in ServerNonces, proof \in ProofInputs}
  \cup {<<Part("c=", Gs2None, TRUE), Part("r=", ClientNonce, TRUE)>>}

\* what the proxy may read in place of the client-final-message
SASLResponseInputs ==
  {[kind |-> "SASLResponse", data |-> d] : d \in ClientFinalInputs}
  \cup {[kind |-> "PasswordMessage", data |-> <<>>], [kind |-> "EOF", data |-> <<>>]}

\* performSCRAMAuth, client-final-message: an error of HandleClientFinal is
\* reported as a fatal 28P01; a panic unwinds Handle (the deferred Close
\* runs, main recovers); on success the server-final-message and
\* AuthenticationOk are sent
HandleSASLResponse ==
  /\ pc = "saslFinal"
  /\ \E in \in SASLResponseInputs :
       LET res == IF in.kind = "EOF" THEN "failed to receive SASL response"
                  ELSE IF in.kind # "SASLResponse" THEN "expected SASLResponse"
                  ELSE HandleClientFinal(scram, GetUser(users, scram.user).user,
                                         in.data, tlsState)
       IN /\ cur' = [kind |-> in.kind, sql |-> <<>>, route |-> "none"]
          /\ authLog' = [step |-> "final", msg |-> in.data, server |-> scram,
                         outcome |-> res]
          /\ IF res = "ok"
             THEN /\ authenticated' = TRUE
                  /\ EnterLoop(<<Msg("AuthenticationSASLFinal")>> \o AuthenticationOk)
             ELSE /\ UNCHANGED authenticated
                  /\ EndSession(IF in.kind = "SASLResponse" /\ res # "panic"
                                THEN <<AuthError>> ELSE <<>>)
  /\ scram' = NoScram
  /\ UNCHANGED <<username, preparedStmts, portals, users, cmUsers, reloadLog, ctxDone, fanVars, readVars,
                 cq, rp, ef, heap, handlers, tlsEnabled, tlsState, startupUser, stmtLog>>

(***************************************************************************)
(* Reads: one-shot reader connection, result relay.                        *)
(***************************************************************************)
\* what the reader backend does with one read: where it fails (if at all),
\* how many fields and rows the result has
ReadOutcomes ==
  {[fail |-> f, fields |-> 0, rows |-> 0, at |-> 0] : f \in {"connect", "query"}}
  \cup {[fail |-> f, fields |-> k, rows |-> n, at |-> 0] :
          f \in {"none", "iter"}, k \in 0..1, n \in 0..MaxRows}
  \cup {r \in [fail : {"values"}, fields : 0..1, rows : 1..MaxRows, at : 1..MaxRows] :
          r.at <= r.rows}

\* the first k rows of the result, each DataRow with its place in the result
DataRows(k) == [i \in 1..k |-> [Msg("DataRow") EXCEPT !.n = i]]

RowDescription(k) == IF k > 0 THEN <<[Msg("RowDescription") EXCEPT !.n = k]>> ELSE <<>>

\* handleReadQuery with the error paths forgetting ReadyForQuery
ReadQueryReply_NoReady(o) ==
  IF o.fail = "connect" THEN <<ErrorResponse("failed to connect to reader", "", 0)>>
  ELSE IF o.fail = "query" THEN <<ErrorResponse("failed to execute query", "", 0)>>
  ELSE IF o.fail = "values"
  THEN RowDescription(o.fields) \o DataRows(o.at - 1)
       \o <<ErrorResponse("failed to get row values", "", 0)>>
  ELSE IF o.fail = "iter"
  THEN RowDescription(o.fields) \o DataRows(o.rows)
       \o <<ErrorResponse("error iterating rows", "", 0)>>
  ELSE RowDescription(o.fields) \o DataRows(o.rows)
       \o <<SelectComplete(o.rows), ReadyForQuery>>

\* handleReadQuery: the messages written for outcome o
ReadQueryReply(o) ==
  IF o.fail = "connect"
  THEN <<ErrorResponse("failed to connect to reader", "", 0), ReadyForQuery>>
  ELSE IF o.fail = "query"
  THEN <<ErrorResponse("failed to execute query", "", 0), ReadyForQuery>>
  ELSE IF o.fail = "values"
  THEN RowDescription(o.fields) \o DataRows(o.at - 1)
       \o <<ErrorResponse("failed to get row values", "", 0), ReadyForQuery>>
  ELSE IF o.fail = "iter"
  THEN RowDescription(o.fields) \o DataRows(o.rows)
       \o <<ErrorResponse("error iterating rows", "", 0), ReadyForQuery>>
  ELSE RowDescription(o.fields) \o DataRows(o.rows)
       \o <<SelectComplete(o.rows), ReadyForQuery>>

\* executeReadPortal suspending as soon as the cap is reached, rows left or not
ReadPortalReply_SuspendAtCap(o, maxRows) ==
  LET capped == maxRows > 0 /\ o.rows >= maxRows
      limit == IF capped THEN maxRows ELSE o.rows
  IN IF o.fail = "connect"
     THEN <<ErrorResponse("failed to connect to reader", "", 0)>>
     ELSE IF o.fail = "query"
     THEN <<ErrorResponse("failed to execute query", "", 0)>>
     ELSE IF o.fail = "values" /\ o.at <= limit
     THEN RowDescription(o.fields) \o DataRows(o.at - 1)
          \o <<ErrorResponse("failed to get row values", "", 0)>>
     ELSE IF capped
     THEN RowDescription(o.fields) \o DataRows(limit) \o <<Msg("PortalSuspended")>>
     ELSE IF o.fail = "iter"
     THEN RowDescription(o.fields) \o DataRows(o.rows)
          \o <<ErrorResponse("error iterating rows", "", 0)>>
     ELSE RowDescription(o.fields) \o DataRows(o.rows) \o <<SelectComplete(o.rows)>>

\* executeReadPortal: the messages written for outcome o and row cap maxRows
ReadPortalReply(o, maxRows) ==
  LET capped == maxRows > 0 /\ o.rows > maxRows
      limit == IF capped THEN maxRows ELSE o.rows
  IN IF o.fail = "connect"
     THEN <<ErrorResponse("failed to connect to reader", "", 0)>>
     ELSE IF o.fail = "query"
     THEN <<ErrorResponse("failed to execute query", "", 0)>>
     ELSE IF o.fail = "values" /\ o.at <= limit
     THEN RowDescription(o.fields) \o DataRows(o.at - 1)
          \o <<ErrorResponse("failed to get row values", "", 0)>>
     ELSE IF capped
     THEN RowDescription(o.fields) \o DataRows(limit) \o <<Msg("PortalSuspended")>>
     ELSE IF o.fail = "iter"
     THEN RowDescription(o.fields) \o DataRows(o.rows)
          \o <<ErrorResponse("error iterating rows", "", 0)>>
     ELSE RowDescription(o.fields) \o DataRows(o.rows) \o <<SelectComplete(o.rows)>>

\* the reader connection and the statement sent on it: connectToBackend,
\* conn.Query, deferred conn.Close
ReaderUse(o, sql) ==
  /\ readerConn' = IF o.fail = "connect" THEN "none" ELSE "closed"
  /\ readerLog' = IF o.fail = "connect" THEN <<>> ELSE <<sql>>

\* handleQuery routing a read to the writers and a write to the reader
RouteQuery_Swapped(queryType) ==
  IF queryType = QueryTypeRead THEN "writers" ELSE "reader"

\* handleQuery: handleReadQuery for a read, handleWriteQuery otherwise
RouteQuery(queryType) ==
  IF queryType = QueryTypeRead THEN "reader" ELSE "writers"

\* handleExecute sending every portal to the reader
RoutePortal_AlwaysReader(queryType) == "reader"

\* handleExecute: executeReadPortal for a read, executeWritePortal otherwise
RoutePortal(queryType) ==
  IF queryType = QueryTypeRead THEN "reader" ELSE "writers"

\* handleQuery, read branch: handleReadQuery
HandleReadQuery ==
  /\ CanReceive
  /\ ForgetParse
  /\ \E sql \in SessionSqls, o \in ReadOutcomes :
       /\ RouteQuery(ClassifyQuery(sql)) = "reader"
       /\ cur' = [kind |-> "Query", sql |-> sql, route |-> "reader"]
       /\ ReaderUse(o, sql)
       /\ Reply(ReadQueryReply(o))
  /\ Received(TRUE)
  /\ ResetFan
  /\ ctxDone' = FALSE
  /\ UNCHANGED <<pc, sessVars, cq, rp, ef, heap, handlers, authVars>>


(***************************************************************************)
(* Fan-out: Router.ExecuteWriteWithParams, one step per backend call.      *)
(***************************************************************************)
InSeq(w, seq) == \E i \in 1..Len(seq) : seq[i] = w

\* a cleanup that takes a transaction for open only until its first statement
TxOpen_Fresh(state) == state = "open"

\* the transaction was begun and neither committed nor rolled back
TxOpen(state) == state \in {"open", "executed", "failed"}

\* a cleanup whose rollback commits
RollbackTx_Commits(state, done) ==
  IF state = "executed" THEN "committed"
  ELSE IF TxOpen(state) THEN "rolledback" ELSE state

\* pgx Tx.Rollback(ctx): ErrTxClosed (no effect) on a transaction already
\* committed or closed; ROLLBACK on an open one; with the context expired the
\* statement is not sent and the connection is killed, which ends the
\* transaction on the server without a commit
RollbackTx(state, done) ==
  IF TxOpen(state) THEN (IF done THEN "aborted" ELSE "rolledback") ELSE state

\* a cleanup that never rolls back
CleanupTx_NoRollback(rollback, sw, t, done) == t

\* cleanup(rollback), transactions: Rollback on every successful writer's tx
CleanupTx(rollback, sw, t, done) ==
  [w \in Writers |->
     IF rollback /\ InSeq(w, sw) /\ t[w] # "none"
     THEN RollbackTx(t[w], done) ELSE t[w]]

\* a cleanup that closes no connection
CleanupConn_Leak(sw, c) == c

\* cleanup(rollback), connections: Close on every successful writer's conn
CleanupConn(sw, c) ==
  [w \in Writers |-> IF InSeq(w, sw) /\ c[w] # "none" THEN "closed" ELSE c[w]]

\* loops that walk the writers from the last to the first
NextWriter_Backwards(ws, i) == ws[Len(ws) + 1 - i]

\* for _, dsn := range WriterDSNs / for i := range successfulWriters: the
\* writer the i-th iteration of a phase works on
NextWriter(ws, i) == ws[i]

\* a begin loop that leaves the connection of a failed Begin open
CloseFailedBegin_Leak(c, w) == c

\* begin loop, Begin failed: successfulWriters[i].conn.Close(ctx)
CloseFailedBegin(c, w) == [c EXCEPT ![w] = "closed"]

\* a connect phase that gives up unless every writer connected
NoWriterAvailable_AnyFailed(sw) == Len(sw) < NumWriters

\* len(successfulWriters) == 0 after the connect loop
NoWriterAvailable(sw) == Len(sw) = 0

\* a commit loop that stops after the first writer
CommitLoopDone_First(i, sw) == i >= 1

\* the commit loop has visited every successful writer
CommitLoopDone(i, sw) == i = Len(sw)

\* a commit error reported with the execute phase's text
CommitError_AsExecute(w) == WriteError("failed to execute on writer", w)

\* fmt.Errorf("failed to commit on writer %s: %w", dsn, err)
CommitError(w) == WriteError("failed to commit on writer", w)

\* fmt.Errorf("failed to execute on writer %s: %w", dsn, err)
ExecuteError(w) == WriteError("failed to execute on writer", w)

\* the command tag tx.Exec returns for a statement on a writer (the one-row
\* insert of the session); ExecuteWriteWithParams drops it
ExecCommandTag(sql) == IF sql = SqlInsert THEN "INSERT 0 1" ELSE "OK"

\* handleWriteQuery returning after the error without a ReadyForQuery
WriteQueryReply_ErrorOnly(err) ==
  IF err # NoError
  THEN <<ErrorResponse("failed to execute write", err.cause, err.writer)>>
  ELSE <<OkComplete, ReadyForQuery>>

\* handleWriteQuery: what is written after ExecuteWrite returned err
WriteQueryReply(err) ==
  IF err # NoError
  THEN <<ErrorResponse("failed to execute write", err.cause, err.writer), ReadyForQuery>>
  ELSE <<OkComplete, ReadyForQuery>>

\* executeWritePortal ending like handleWriteQuery, with a ReadyForQuery
WritePortalReply_Ready(err) ==
  IF err # NoError
  THEN <<ErrorResponse("failed to execute write", err.cause, err.writer), ReadyForQuery>>
  ELSE <<OkComplete, ReadyForQuery>>

\* executeWritePortal: what is written after ExecuteWriteWithParams returned err
WritePortalReply(err) ==
  IF err # NoError
  THEN <<ErrorResponse("failed to execute write", err.cause, err.writer)>>
  ELSE <<OkComplete>>

\* ExecuteWriteWithParams returned err to handleWriteQuery / executeWritePortal
FinishWrite(err, phase) ==
  LET ms == IF cur.kind = "Query" THEN WriteQueryReply(err) ELSE WritePortalReply(err)
  IN /\ out' = ms
     /\ grpRFQ' = grpRFQ + Count(ms, "ReadyForQuery")
     /\ grpErr' = grpErr + Count(ms, "ErrorResponse")
     /\ failedAt' = phase
     /\ pc' = "ready"
     /\ fi' = 0

InFanout == pc \in {"connect", "begin", "exec", "commit"}

\* entry of ExecuteWriteWithParams for the message msg
StartFanout(msg) ==
  /\ cur' = msg
  /\ out' = <<>>
  /\ grpRFQ' = BaseRFQ
  /\ grpErr' = BaseErr
  /\ failedAt' = "none"
  /\ ctxDone' = FALSE
  /\ successfulWriters' = <<>>
  /\ writersWithTx' = <<>>
  /\ failedWriters' = <<>>
  /\ conn' = [w \in Writers |-> "none"]
  /\ tx' = [w \in Writers |-> "none"]
  /\ execd' = {}
  /\ pc' = "connect"
  /\ fi' = 1
  /\ ResetRead

\* handleQuery, write branch: handleWriteQuery calls ExecuteWrite
HandleWriteQuery ==
  /\ CanReceive
  /\ ForgetParse
  /\ \E sql \in SessionSqls :
       /\ RouteQuery(ClassifyQuery(sql)) = "writers"
       /\ StartFanout([kind |-> "Query", sql |-> sql, route |-> "writers"])
  /\ Received(TRUE)
  /\ UNCHANGED <<sessVars, cq, rp, ef, heap, handlers, authVars>>

\* the per-query deadline (context.WithTimeout, 5 s) expires during the fan-out
Expire ==
  /\ InFanout
  /\ ~ctxDone
  /\ ctxDone' = TRUE
  /\ UNCHANGED <<pc, sessVars, out, cur, fanVars, readVars, grpVars, cq, rp, ef, heap, handlers, authVars,
                 stmtLog>>

\* connect loop: connectToBackend on the next writer; a failure is logged and
\* the writer skipped; after the last writer, the check for an empty set
FanoutConnect ==
  /\ pc = "connect"
  /\ \E ok \in BOOLEAN :
       LET w == NextWriter(WriterDSNs, fi)
           sw == IF ok THEN Append(successfulWriters, w) ELSE successfulWriters
       IN /\ ok => ~ctxDone
          /\ successfulWriters' = sw
          /\ failedWriters' = IF ok THEN failedWriters ELSE Append(failedWriters, w)
          /\ conn' = IF ok THEN [conn EXCEPT ![w] = "open"] ELSE conn
          /\ IF fi < NumWriters
             THEN /\ fi' = fi + 1
                  /\ UNCHANGED <<pc, out, grpRFQ, grpErr, failedAt>>
             ELSE IF NoWriterAvailable(sw)
             THEN FinishWrite(WriteError("no writer backends available (all writers failed)", 0),
                              "connect")
             ELSE /\ pc' = "begin"
                  /\ fi' = 1
                  /\ UNCHANGED <<out, grpRFQ, grpErr, failedAt>>
  /\ UNCHANGED <<sessVars, cur, ctxDone, writersWithTx, tx, execd, readVars,
                 grpClosed, cq, rp, ef, heap, handlers, authVars, stmtLog>>

\* begin loop: conn.Begin on the next connected writer; a failure closes that
\* connection and drops the writer; after the last one, successfulWriters
\* becomes writersWithTx and is checked for emptiness
FanoutBegin ==
  /\ pc = "begin"
  /\ \E ok \in BOOLEAN :
       LET w == NextWriter(successfulWriters, fi)
           wt == IF ok THEN Append(writersWithTx, w) ELSE writersWithTx
       IN /\ ok => ~ctxDone
          /\ tx' = IF ok THEN [tx EXCEPT ![w] = "open"] ELSE tx
          /\ conn' = IF ok THEN conn ELSE CloseFailedBegin(conn, w)
          /\ failedWriters' = IF ok THEN failedWriters ELSE Append(failedWriters, w)
          /\ IF fi < Len(successfulWriters)
             THEN /\ fi' = fi + 1
                  /\ writersWithTx' = wt
                  /\ UNCHANGED <<pc, out, grpRFQ, grpErr, failedAt, successfulWriters>>
             ELSE /\ successfulWriters' = wt
                  /\ writersWithTx' = wt
                  /\ IF Len(wt) = 0
                     THEN FinishWrite(WriteError("no writer backends available (failed to begin transactions)", 0),
                                      "begin")
                     ELSE /\ pc' = "exec"
                          /\ fi' = 1
                          /\ UNCHANGED <<out, grpRFQ, grpErr, failedAt>>
  /\ UNCHANGED <<sessVars, cur, ctxDone, execd, readVars, grpClosed, cq, rp, ef, heap, handlers, authVars, stmtLog>>

\* execute loop: tx.Exec on the next writer; the first failure runs
\* cleanup(true) and returns the execute error
FanoutExec ==
  /\ pc = "exec"
  /\ \E ok \in BOOLEAN :
       LET w == NextWriter(successfulWriters, fi)
           t == [tx EXCEPT ![w] = IF ok THEN "executed" ELSE "failed"]
       IN /\ ok => ~ctxDone
          /\ execd' = IF ctxDone THEN execd ELSE execd \cup {w}
          /\ IF ok
             THEN /\ tx' = t
                  /\ conn' = conn
                  /\ UNCHANGED <<out, grpRFQ, grpErr, failedAt>>
                  /\ IF fi < Len(successfulWriters)
                     THEN fi' = fi + 1 /\ pc' = pc
                     ELSE fi' = 1 /\ pc' = "commit"
             ELSE /\ tx' = CleanupTx(TRUE, successfulWriters, t, ctxDone)
                  /\ conn' = CleanupConn(successfulWriters, conn)
                  /\ FinishWrite(ExecuteError(w), "exec")
  /\ UNCHANGED <<sessVars, cur, ctxDone, successfulWriters, writersWithTx,
                 failedWriters, readVars, grpClosed, cq, rp, ef, heap, handlers, authVars, stmtLog>>

\* commit loop: tx.Commit on the next writer; a failure (the transaction is
\* closed uncommitted and pgx closes the connection) runs cleanup(true) and
\* returns the commit error; after the last commit cleanup(false) and nil
FanoutCommit ==
  /\ pc = "commit"
  /\ \E ok \in BOOLEAN :
       LET w == NextWriter(successfulWriters, fi)
           t == [tx EXCEPT ![w] = IF ok THEN "committed" ELSE "aborted"]
       IN /\ ok => ~ctxDone
          /\ IF ok
             THEN IF CommitLoopDone(fi, successfulWriters)
                  THEN /\ tx' = CleanupTx(FALSE, successfulWriters, t, ctxDone)
                       /\ conn' = CleanupConn(successfulWriters, conn)
                       /\ FinishWrite(NoError, "none")
                  ELSE /\ tx' = t
                       /\ conn' = conn
                       /\ fi' = fi + 1
                       /\ UNCHANGED <<pc, out, grpRFQ, grpErr, failedAt>>
             ELSE /\ tx' = CleanupTx(TRUE, successfulWriters, t, ctxDone)
                  /\ conn' = CleanupConn(successfulWriters, conn)
                  /\ FinishWrite(CommitError(w), "commit")
  /\ UNCHANGED <<sessVars, cur, ctxDone, successfulWriters, writersWithTx,
                 failedWriters, execd, readVars, grpClosed, cq, rp, ef, heap, handlers, authVars, stmtLog>>


(***************************************************************************)
(* Extended query protocol: Parse, Bind, Describe, Execute, Close, Sync.   *)
(***************************************************************************)
\* declared parameter type OIDs of a Parse message: one int4
ParamOIDChoices == {<<"int4">>}

\* parameter values of a Bind message: one text value
ParamChoices == {<<"1">>}

\* a handler that touches no backend returns: its locals of the previous
\* message are gone and msg is the message handled
NoBackend(msg) ==
  /\ cur' = msg
  /\ ResetFan
  /\ ResetRead
  /\ ctxDone' = FALSE

\* handleParse: store the statement under its name (replacing any statement
\* of that name) with its classification; ParseComplete
HandleParse ==
  /\ CanReceive
  /\ \E name \in StmtNames, sql \in SessionSqls, oids \in ParamOIDChoices :
       /\ preparedStmts' = MapPut(preparedStmts, name,
              [name |-> name, query |-> sql, paramOIDs |-> oids,
               queryType |-> ClassifyQuery(sql)])
       /\ stmtLog' = [stage |-> "parsed", name |-> name, before |-> preparedStmts]
       /\ NoBackend([kind |-> "Parse", sql |-> sql, route |-> "none"])
  /\ Reply(<<Msg("ParseComplete")>>)
  /\ Received(FALSE)
  /\ UNCHANGED <<pc, authenticated, username, portals, users, cmUsers, reloadLog, cq, rp, ef, heap, handlers, authVars>>

\* a Bind that answers without storing the portal
BindPortal_Ignore(ps, portal, stmt, params) == ps

\* h.portals[msg.DestinationPortal] = &Portal{Name, StmtName, Params}
BindPortal(ps, portal, stmt, params) ==
  MapPut(ps, portal, [name |-> portal, stmtName |-> stmt, params |-> params])

\* handleBind: error when the statement does not exist; otherwise store the
\* portal under the destination name; BindComplete
HandleBind ==
  /\ CanReceive
  /\ \E portal \in PortalNames, stmt \in StmtNames, params \in ParamChoices :
       /\ stmtLog' = [stage |-> "bound", name |-> stmt, before |-> <<>>]
       /\ IF stmt \notin DOMAIN preparedStmts
          THEN /\ Reply(<<ErrorResponse("prepared statement does not exist", "", 0)>>)
               /\ UNCHANGED portals
          ELSE /\ portals' = BindPortal(portals, portal, stmt, params)
               /\ Reply(<<Msg("BindComplete")>>)
  /\ NoBackend([kind |-> "Bind", sql |-> <<>>, route |-> "none"])
  /\ Received(FALSE)
  /\ UNCHANGED <<pc, authenticated, username, preparedStmts, users, cmUsers, reloadLog, cq, rp, ef, heap, handlers, authVars>>

\* handleExecute: the portal or its statement does not exist
HandleExecuteMissing ==
  /\ CanReceive
  /\ ForgetParse
  /\ \E portal \in PortalNames :
       /\ IF portal \notin DOMAIN portals THEN TRUE
          ELSE portals[portal].stmtName \notin DOMAIN preparedStmts
       /\ Reply(<<ErrorResponse(
                    IF portal \notin DOMAIN portals
                    THEN "portal does not exist"
                    ELSE "prepared statement does not exist", "", 0)>>)
  /\ NoBackend([kind |-> "Execute", sql |-> <<>>, route |-> "none"])
  /\ Received(FALSE)
  /\ UNCHANGED <<pc, sessVars, cq, rp, ef, heap, handlers, authVars>>

\* handleExecute, read statement: executeReadPortal
HandleExecuteRead ==
  /\ CanReceive
  /\ ForgetParse
  /\ \E portal \in DOMAIN portals, maxRows \in 0..MaxRows, o \in ReadOutcomes :
       /\ portals[portal].stmtName \in DOMAIN preparedStmts
       /\ LET stmt == preparedStmts[portals[portal].stmtName]
          IN /\ RoutePortal(stmt.queryType) = "reader"
             /\ cur' = [kind |-> "Execute", sql |-> stmt.query, route |-> "reader"]
             /\ ReaderUse(o, stmt.query)
             /\ Reply(ReadPortalReply(o, maxRows))
  /\ Received(FALSE)
  /\ ResetFan
  /\ ctxDone' = FALSE
  /\ UNCHANGED <<pc, sessVars, cq, rp, ef, heap, handlers, authVars>>

\* handleExecute, write statement: executeWritePortal calls ExecuteWriteWithParams
HandleExecuteWrite ==
  /\ CanReceive
  /\ ForgetParse
  /\ \E portal \in DOMAIN portals :
       /\ portals[portal].stmtName \in DOMAIN preparedStmts
       /\ LET stmt == preparedStmts[portals[portal].stmtName]
          IN /\ RoutePortal(stmt.queryType) = "writers"
             /\ StartFanout([kind |-> "Execute", sql |-> stmt.query, route |-> "writers"])
  /\ Received(FALSE)
  /\ UNCHANGED <<sessVars, cq, rp, ef, heap, handlers, authVars>>

\* handleDescribe: statement (ParameterDescription, NoData) or portal (NoData);
\* error when the object does not exist
HandleDescribe ==
  /\ CanReceive
  /\ ForgetParse
  /\ \E objectType \in {"S", "P"}, name \in StmtNames \cup PortalNames :
       IF objectType = "S"
       THEN IF name \notin DOMAIN preparedStmts
            THEN Reply(<<ErrorResponse("prepared statement does not exist", "", 0)>>)
            ELSE Reply(<<[Msg("ParameterDescription") EXCEPT
                            !.n = Len(preparedStmts[name].paramOIDs)],
                         Msg("NoData")>>)
       ELSE IF name \notin DOMAIN portals
            THEN Reply(<<ErrorResponse("portal does not exist", "", 0)>>)
            ELSE Reply(<<Msg("NoData")>>)
  /\ NoBackend([kind |-> "Describe", sql |-> <<>>, route |-> "none"])
  /\ Received(FALSE)
  /\ UNCHANGED <<pc, sessVars, cq, rp, ef, heap, handlers, authVars>>

\* handleClose: delete the statement or the portal; CloseComplete
HandleClose ==
  /\ CanReceive
  /\ \E objectType \in {"S", "P"}, name \in StmtNames \cup PortalNames :
       /\ IF objectType = "S"
          THEN /\ preparedStmts' = MapDelete(preparedStmts, name)
               /\ UNCHANGED portals
          ELSE /\ portals' = MapDelete(portals, name)
               /\ UNCHANGED preparedStmts
       /\ stmtLog' = IF objectType = "S" /\ stmtLog.stage = "parsed"
                        /\ stmtLog.name = name
                     THEN [stmtLog EXCEPT !.stage = "closed"]
                     ELSE NoStmtLog
  /\ Reply(<<Msg("CloseComplete")>>)
  /\ NoBackend([kind |-> "Close", sql |-> <<>>, route |-> "none"])
  /\ Received(FALSE)
  /\ UNCHANGED <<pc, authenticated, username, users, cmUsers, reloadLog, cq, rp, ef, heap, handlers, authVars>>

\* Sync: sendReadyForQuery('I')
HandleSync ==
  /\ pc = "ready"
  /\ ForgetParse
  /\ out' = <<ReadyForQuery>>
  /\ grpRFQ' = BaseRFQ + 1
  /\ grpErr' = BaseErr
  /\ grpClosed' = TRUE
  /\ NoBackend([kind |-> "Sync", sql |-> <<>>, route |-> "none"])
  /\ UNCHANGED <<pc, sessVars, cq, rp, ef, heap, handlers, authVars>>

\* Flush: nothing to do
HandleFlush ==
  /\ CanReceive
  /\ ForgetParse
  /\ Reply(<<>>)
  /\ NoBackend([kind |-> "Flush", sql |-> <<>>, route |-> "none"])
  /\ Received(FALSE)
  /\ UNCHANGED <<pc, sessVars, cq, rp, ef, heap, handlers, authVars>>

\* any other message type: sendError("unsupported message type"), keep reading
HandleUnsupported ==
  /\ CanReceive
  /\ ForgetParse
  /\ Reply(<<ErrorResponse("unsupported message type", "", 0)>>)
  /\ NoBackend([kind |-> "Unsupported", sql |-> <<>>, route |-> "none"])
  /\ Received(FALSE)
  /\ UNCHANGED <<pc, sessVars, cq, rp, ef, heap, handlers, authVars>>

\* Terminate, or Receive returning an error (EOF): Handle returns, the
\* deferred conn.Close runs and the handler with its maps is dropped
HandleTerminate ==
  /\ pc = "ready"
  /\ ForgetParse
  /\ pc' = "closed"
  /\ preparedStmts' = EmptyMap
  /\ portals' = EmptyMap
  /\ out' = <<>>
  /\ grpRFQ' = 0
  /\ grpErr' = 0
  /\ grpClosed' = FALSE
  /\ NoBackend(NoMessage)
  /\ UNCHANGED <<authenticated, username, users, cmUsers, reloadLog, cq, rp, ef, heap, handlers, authVars>>

Next ==
  \/ HandleSSLRequest
  \/ HandleStartup
  \/ HandleReadQuery
  \/ HandleWriteQuery
  \/ Expire
  \/ FanoutConnect
  \/ FanoutBegin
  \/ FanoutExec
  \/ FanoutCommit
  \/ HandleParse
  \/ HandleBind
  \/ HandleExecuteMissing
  \/ HandleExecuteRead
  \/ HandleExecuteWrite
  \/ HandleDescribe
  \/ HandleClose
  \/ HandleSync
  \/ HandleFlush
  \/ HandleUnsupported
  \/ HandleTerminate

Spec == Init /\ [][Next]_vars


(***************************************************************************)
(* Sessions of a proxy with any credential store and TLS setting: startup, *)
(* the SCRAM exchange and the receive loop of an authenticated session     *)
(* (the backend dispatch, which touches no session field, is left to Spec).*)
(***************************************************************************)
\* the credential stores a proxy may be started with
UserStores == {{}, {"alice"}, {"bob"}}

InitAuth ==
  /\ InitSession
  /\ users \in UserStores
  /\ cmUsers = users
  /\ reloadLog = NoReload
  /\ tlsEnabled \in BOOLEAN
  /\ cq = [sql |-> <<>>, result |-> "none"]
  /\ rp = NoReadPortal
  /\ ef = NoEnvelope
  /\ NoConnections

NextAuth ==
  \/ HandleSSLRequest
  \/ HandleStartup
  \/ HandleSASLInitial
  \/ HandleSASLResponse
  \/ HandleParse
  \/ HandleBind
  \/ HandleExecuteMissing
  \/ HandleDescribe
  \/ HandleClose
  \/ HandleSync
  \/ HandleFlush
  \/ HandleUnsupported
  \/ HandleTerminate

SpecAuth == InitAuth /\ [][NextAuth]_vars

(***************************************************************************)
(* The credential manager reloading while a session starts: the auto-reload *)
(* goroutine of StartAutoReload beside the startup and SCRAM exchange.      *)
(***************************************************************************)
\* how a run of LoadCredentials ends: provider.GetCredentials fails, AddUser
\* fails on one of the fetched users, or every user is added
ReloadOutcomes == {"fetch failed", "add failed", "ok"}

\* a reload that stores the new AuthConfig before the users are added to it
LoadCredentials_StoreFirst(store, outcome, fetched) ==
  IF outcome = "ok" THEN fetched ELSE IF outcome = "add failed" THEN {} ELSE store

\* LoadCredentials: the manager's users after the run; cm.authConfig is
\* assigned only after every AddUser has succeeded
LoadCredentials(store, outcome, fetched) ==
  IF outcome = "ok" THEN fetched ELSE store

\* StartAutoReload, after a tick: the error is printed and the loop waits for
\* the next tick
AfterReload(outcome) == "running"

\* CredentialManager.LoadCredentials on a tick of the reload timer: a failed
\* fetch changes nothing; a successful one builds a new AuthConfig from the
\* fetched users and stores it in the manager (the Config built by LoadConfig
\* keeps the AuthConfig that GetAuthConfig returned at start)
Reload ==
  /\ reloadLog.loop = "running"
  /\ \E outcome \in ReloadOutcomes, fetched \in UserStores :
       /\ cmUsers' = LoadCredentials(cmUsers, outcome, fetched)
       /\ reloadLog' = [outcome |-> outcome, before |-> cmUsers,
                        loop |-> AfterReload(outcome)]
  /\ UNCHANGED <<pc, authenticated, username, preparedStmts, portals, users, out, cur,
                 ctxDone, fanVars, readVars, grpVars, cq, rp, ef, heap, handlers, authVars,
                 stmtLog>>

NextReload ==
  \/ Reload
  \/ HandleSSLRequest
  \/ HandleStartup
  \/ HandleSASLInitial
  \/ HandleSASLResponse
  \/ HandleSync
  \/ HandleTerminate

SpecReload == InitAuth /\ [][NextReload]_vars

(***************************************************************************)
(* The credential-file envelope on its own: a file is sealed under one key  *)
(* string, possibly damaged, and opened under a key string.                 *)
(***************************************************************************)
SeqsOver(S, lo, hi) == UNION {[1..n -> S] : n \in lo..hi}

\* key strings as given on the command line or in CREDENTIAL_ENCRYPTION_KEY:
\* shorter than, as long as, and longer than the cipher's key
KeyInputs == SeqsOver({"a", "b"}, KeySize - 1, KeySize + 1)

DataInputs == SeqsOver({"x", "y"}, 0, MaxData)

Nonces == SeqsOver({[nonce |-> "n1"], [nonce |-> "n2"]}, NonceSize, NonceSize)

InitEnvelope ==
  /\ InitSession
  /\ users = {}
  /\ cmUsers = users
  /\ reloadLog = NoReload
  /\ tlsEnabled = FALSE
  /\ cq = [sql |-> <<>>, result |-> "none"]
  /\ rp = NoReadPortal
  /\ NoConnections
  /\ ef \in {[NoEnvelope EXCEPT !.data = d, !.encKey = k1, !.decKey = k2, !.stage = "plain"] :
              d \in DataInputs, k1 \in KeyInputs, k2 \in KeyInputs}

EnvelopeUnchanged ==
  UNCHANGED <<pc, sessVars, out, cur, ctxDone, fanVars, readVars, grpVars, cq, rp,
              heap, handlers, authVars, stmtLog>>

\* EncryptCredentialFile / encryptFile with a fresh random nonce
EncryptCredentialFile ==
  /\ ef.stage = "plain"
  /\ \E nonce \in Nonces :
       ef' = [ef EXCEPT !.file = Seal(DeriveKey(ef.encKey), nonce, ef.data),
                        !.stage = "sealed"]
  /\ EnvelopeUnchanged

\* the file is cut short or one of its bytes is changed before it is read
DamageFile ==
  /\ ef.stage = "sealed"
  /\ ~ef.tampered
  /\ \/ \E n \in 0..(Len(ef.file) - 1) :
          ef' = [ef EXCEPT !.file = SubSeq(ef.file, 1, n), !.tampered = TRUE]
     \/ \E j \in 1..Len(ef.file) :
          ef' = [ef EXCEPT !.file[j] = [flipped |-> ef.file[j]], !.tampered = TRUE]
  /\ EnvelopeUnchanged

\* FileCredentialProvider.decrypt / decryptFile
DecryptCredentialFile ==
  /\ ef.stage = "sealed"
  /\ ef' = [ef EXCEPT !.result = Open(DeriveKey(ef.decKey), ef.file), !.stage = "opened"]
  /\ EnvelopeUnchanged

NextEnvelope ==
  \/ EncryptCredentialFile
  \/ DamageFile
  \/ DecryptCredentialFile

SpecEnvelope == InitEnvelope /\ [][NextEnvelope]_vars

(***************************************************************************)
(* Two connections served at once: the handlers' messages interleave, each  *)
(* handler running its own message to the end.  Beside every handler runs   *)
(* a copy of it that has the maps to itself (alone).                        *)
(***************************************************************************)
\* the backend-free messages of the extended protocol, on the statement names
\* and the unnamed portal
HandlerMsgs ==
  {[kind |-> "Parse", objectType |-> "S", name |-> n, stmt |-> n] : n \in StmtNames}
  \cup {[kind |-> "Bind", objectType |-> "P", name |-> "", stmt |-> n] : n \in StmtNames}
  \cup {[kind |-> k, objectType |-> "S", name |-> n, stmt |-> n] :
          k \in {"Describe", "Close"}, n \in StmtNames}
  \cup {[kind |-> k, objectType |-> "P", name |-> "", stmt |-> ""] :
          k \in {"Describe", "Close"}}

\* handleParse, handleBind, handleDescribe and handleClose as functions of the
\* handler's two maps: the maps afterwards and the messages written
HandlerStep(stmts, ports, msg) ==
  LET same == [preparedStmts |-> stmts, portals |-> ports, out |-> <<>>]
      err(text) == [same EXCEPT !.out = <<ErrorResponse(text, "", 0)>>]
  IN IF msg.kind = "Parse"
     THEN [same EXCEPT
             !.preparedStmts = MapPut(stmts, msg.name,
                 [name |-> msg.name, query |-> SqlShow, paramOIDs |-> <<>>,
                  queryType |-> ClassifyQuery(SqlShow)]),
             !.out = <<Msg("ParseComplete")>>]
     ELSE IF msg.kind = "Bind"
     THEN IF msg.stmt \notin DOMAIN stmts
          THEN err("prepared statement does not exist")
          ELSE [same EXCEPT
                  !.portals = MapPut(ports, msg.name,
                      [name |-> msg.name, stmtName |-> msg.stmt, params |-> <<>>]),
                  !.out = <<Msg("BindComplete")>>]
     ELSE IF msg.kind = "Describe"
     THEN IF msg.objectType = "S"
          THEN IF msg.name \notin DOMAIN stmts
               THEN err("prepared statement does not exist")
               ELSE [same EXCEPT !.out =
                       <<[Msg("ParameterDescription") EXCEPT
                            !.n = Len(stmts[msg.name].paramOIDs)],
                         Msg("NoData")>>]
          ELSE IF msg.name \notin DOMAIN ports
               THEN err("portal does not exist")
               ELSE [same EXCEPT !.out = <<Msg("NoData")>>]
     ELSE IF msg.objectType = "S"
     THEN [same EXCEPT !.preparedStmts = MapDelete(stmts, msg.name),
                       !.out = <<Msg("CloseComplete")>>]
     ELSE [same EXCEPT !.portals = MapDelete(ports, msg.name),
                       !.out = <<Msg("CloseComplete")>>]

HandlersUnchanged ==
  UNCHANGED <<pc, sessVars, out, cur, ctxDone, fanVars, readVars, grpVars, cq, rp, ef,
              authVars, stmtLog>>

\* main, accept loop: a handler for the new connection, run in its own goroutine
Accept(c) ==
  /\ handlers[c].state = "none"
  /\ heap' = NewClientHandler(heap).heap
  /\ handlers' = [handlers EXCEPT ![c] = NewClientHandler(heap).handler]
  /\ HandlersUnchanged

\* handleStartup of connection c in trust mode
HandlerStartup(c) ==
  /\ handlers[c].state = "startup"
  /\ handlers' = [handlers EXCEPT ![c].state = "ready",
                                  ![c].out = AuthenticationOk,
                                  ![c].alone.out = AuthenticationOk]
  /\ UNCHANGED heap
  /\ HandlersUnchanged

\* the receive loop of connection c handles one message
HandlerReceive(c) ==
  /\ handlers[c].state = "ready"
  /\ \E msg \in HandlerMsgs :
       LET h == handlers[c]
           r == HandlerStep(heap[h.preparedStmts], heap[h.portals], msg)
           a == HandlerStep(h.alone.preparedStmts, h.alone.portals, msg)
       IN /\ heap' = [[heap EXCEPT ![h.preparedStmts] = r.preparedStmts]
                        EXCEPT ![h.portals] = r.portals]
          /\ handlers' = [handlers EXCEPT ![c].out = r.out, ![c].alone = a]
  /\ HandlersUnchanged

\* Terminate on connection c: Handle returns and the connection is closed
HandlerTerminate(c) ==
  /\ handlers[c].state = "ready"
  /\ handlers' = [handlers EXCEPT ![c].state = "closed"]
  /\ UNCHANGED heap
  /\ HandlersUnchanged

NextSessions ==
  \E c \in Conns :
    \/ Accept(c)
    \/ HandlerStartup(c)
    \/ HandlerReceive(c)
    \/ HandlerTerminate(c)

SpecSessions == Init /\ [][NextSessions]_vars

(***************************************************************************)
(* The classifier on its own: ClassifyQuery applied to each input text.    *)
(***************************************************************************)
InitClassify ==
  /\ InitSession
  /\ users = {}
  /\ cmUsers = users
  /\ reloadLog = NoReload
  /\ tlsEnabled = FALSE
  /\ rp = NoReadPortal
  /\ ef = NoEnvelope
  /\ NoConnections
  /\ cq \in {[sql |-> s, result |-> "none"] : s \in SqlInputs}

\* ClassifyQuery(sql) is called
Classify ==
  /\ cq.result = "none"
  /\ cq' = [cq EXCEPT !.result = ClassifyQuery(cq.sql)]
  /\ UNCHANGED <<pc, sessVars, out, cur, ctxDone, fanVars, readVars, grpVars, rp, ef, heap, handlers,
                 authVars, stmtLog>>

NextClassify == Classify

SpecClassify == InitClassify /\ [][NextClassify]_vars

(***************************************************************************)
(* The read portal on its own: executeReadPortal applied to each backend   *)
(* outcome and row cap.                                                    *)
(***************************************************************************)
InitReadPortal ==
  /\ InitSession
  /\ users = {}
  /\ cmUsers = users
  /\ reloadLog = NoReload
  /\ tlsEnabled = FALSE
  /\ cq = [sql |-> <<>>, result |-> "none"]
  /\ ef = NoEnvelope
  /\ NoConnections
  /\ rp \in {[NoReadPortal EXCEPT !.o = o, !.maxRows = k] :
              o \in ReadOutcomes, k \in 0..MaxRows}

MaxExecutes == 2

\* the places in the result of the DataRows of a reply
RowsOf(reply) ==
  LET rows == SelectSeq(reply, LAMBDA msg : msg.type = "DataRow")
  IN [i \in 1..Len(rows) |-> rows[i].n]

\* executeReadPortal(stmt, portal, maxRows) runs against the reader
\* the client sends Execute for the portal again after PortalSuspended; the
\* reader answers the query as it did before
ExecuteReadPortal ==
  /\ \/ ~rp.done
     \/ /\ rp.done
        /\ Count(rp.reply, "PortalSuspended") = 1
        /\ Len(rp.delivered) < MaxExecutes * MaxRows
  /\ LET reply == ReadPortalReply(rp.o, rp.maxRows)
     IN rp' = [rp EXCEPT !.reply = reply, !.done = TRUE,
                         !.delivered = rp.delivered \o RowsOf(reply)]
  /\ UNCHANGED <<pc, sessVars, out, cur, ctxDone, fanVars, readVars, grpVars, cq, ef, heap, handlers,
                 authVars, stmtLog>>

NextReadPortal == ExecuteReadPortal

SpecReadPortal == InitReadPortal /\ [][NextReadPortal]_vars

(***************************************************************************)
(* Properties.                                                             *)
(***************************************************************************)
\* the fan-out of the current write has returned and the client was answered
WriteDone == pc = "ready" /\ cur.route = "writers"

ClientGot(t) == \E i \in 1..Len(out) : out[i].type = t

\* writer w connected and began a transaction in the current fan-out
Began(w) == tx[w] # "none"

\* the current write is committed (visible) on writer w
Committed(w) == tx[w] = "committed"

\* the transaction of w ended without a commit: ROLLBACK, or the connection
\* torn down with the transaction open
RolledBack(w) == tx[w] \in {"rolledback", "aborted"}

\* C1: when the client receives CommandComplete for a write, the write is
\* committed on every writer that connected and began a transaction; none of
\* them is left uncommitted or rolled back.
C1_SuccessCommitsEverywhere ==
  (WriteDone /\ ClientGot("CommandComplete"))
    => /\ ~ClientGot("ErrorResponse")
       /\ \A w \in Writers : Began(w) => Committed(w)
       /\ \E w \in Writers : Committed(w)

\* C1 witness: a write answered with CommandComplete that two writers began
C1_Witness ==
  /\ WriteDone
  /\ ClientGot("CommandComplete")
  /\ Cardinality({w \in Writers : Began(w)}) >= 2

\* C2: when the client receives ErrorResponse for a write and no commit call
\* failed (the failure was at connect, begin, execute or by deadline before any
\* commit), the write is committed on no writer.
C2_FailureCommitsNowhere ==
  (WriteDone /\ ClientGot("ErrorResponse") /\ failedAt # "commit")
    => \A w \in Writers : ~Committed(w)

\* C2 witness: an execute failure after another writer had executed the write
C2_Witness ==
  /\ WriteDone
  /\ ClientGot("ErrorResponse")
  /\ failedAt = "exec"
  /\ Cardinality(execd) >= 2

\* index in the working set of the writer the client's error names
NamedIndex ==
  CHOOSE i \in 0..Len(successfulWriters) :
    \/ i > 0 /\ successfulWriters[i] = out[1].writer
    \/ i = 0 /\ ~InSeq(out[1].writer, successfulWriters)

C6_DownWriterFailsWrite ==
  (WriteDone /\ \E w \in Writers : conn[w] = "none")
    => /\ ClientGot("ErrorResponse")
       /\ \A w \in Writers : ~Committed(w)

\* C7: a statement classified read goes to the reader and to no writer; a
\* statement classified write goes to writers and never to the reader; on the
\* simple and on the extended path.
C7_RoutingFollowsClassification ==
  /\ \A i \in 1..Len(readerLog) : ClassifyQuery(readerLog[i]) = QueryTypeRead
  /\ readerLog # <<>> => (readerLog = <<cur.sql>> /\ execd = {}
                          /\ \A w \in Writers : conn[w] = "none")
  /\ (execd # {} \/ \E w \in Writers : conn[w] # "none")
       => /\ ClassifyQuery(cur.sql) = QueryTypeWrite
          /\ readerLog = <<>>
          /\ readerConn = "none"
  /\ cur.route = "reader" => ClassifyQuery(cur.sql) = QueryTypeRead
  /\ cur.route = "writers" => ClassifyQuery(cur.sql) = QueryTypeWrite

\* C7 witness: an Execute whose statement was sent to the reader
C7_Witness ==
  /\ cur.kind = "Execute"
  /\ readerLog = <<SqlShow>>

\* C9: every simple Query, succeeded or failed, is answered with exactly one
\* ReadyForQuery (idle), the last message written, right after the one
\* CommandComplete or ErrorResponse of that query.
C9_SimpleQueryEndsReady ==
  (pc = "ready" /\ cur.kind = "Query")
    => /\ Len(out) >= 2
       /\ Count(out, "ReadyForQuery") = 1
       /\ out[Len(out)] = ReadyForQuery
       /\ out[Len(out) - 1].type \in {"CommandComplete", "ErrorResponse"}
       /\ Count(out, "CommandComplete") + Count(out, "ErrorResponse") = 1

\* C9 witness: a simple read that fails on a row after a DataRow was sent
C9_Witness ==
  /\ pc = "ready"
  /\ cur.kind = "Query"
  /\ ClientGot("DataRow")
  /\ ClientGot("ErrorResponse")

ExtendedKinds == {"Parse", "Bind", "Describe", "Execute", "Close", "Flush"}

\* C10: in an extended-query group no message but the Sync emits a
\* ReadyForQuery, and the Sync emits exactly one: one ReadyForQuery per group,
\* whatever succeeded or failed in it.
C10_OneReadyPerGroup ==
  /\ cur.kind \in ExtendedKinds => (grpRFQ = 0 /\ Count(out, "ReadyForQuery") = 0)
  /\ cur.kind = "Sync" => (grpRFQ = 1 /\ out = <<ReadyForQuery>>)

\* C10 witness: a Sync closing a group in which two messages failed
C10_Witness ==
  /\ cur.kind = "Sync"
  /\ grpErr = 2
  /\ grpRFQ = 1


\* number of leading letters of s
LeadingLetters(s) ==
  IF \A i \in 1..Len(s) : IsLetter(s[i]) THEN Len(s)
  ELSE (CHOOSE i \in 1..Len(s) :
          ~IsLetter(s[i]) /\ \A j \in 1..(i-1) : IsLetter(s[j])) - 1

\* the first keyword token of a statement: the letters that follow its leading
\* white space, in upper case
FirstToken(s) ==
  LET rest == SubSeq(s, LeadingSpaces(s) + 1, Len(s))
  IN ToUpper(SubSeq(rest, 1, LeadingLetters(rest)))

KwWITH == <<"W", "I", "T", "H">>

\* C8 as stated: ClassifyQuery returns read exactly when the first keyword
\* token is SELECT, SHOW or EXPLAIN, and write for every other string.
C8_ReadIffFirstTokenIsKeyword ==
  cq.result # "none"
    => (cq.result = QueryTypeRead <=> FirstToken(cq.sql) \in ReadKeywords)

\* C8 amended: ClassifyQuery returns read exactly when the first keyword token
\* begins with SELECT, SHOW or EXPLAIN (the token need not end there), and
\* write for every other string; the empty string and a statement whose first
\* token is WITH classify as write.
C8_ReadIffFirstTokenStartsWithKeyword ==
  cq.result # "none"
    => /\ cq.result \in {QueryTypeRead, QueryTypeWrite}
       /\ cq.result = QueryTypeRead
            <=> \E kw \in ReadKeywords : HasPrefix(FirstToken(cq.sql), kw)
       /\ (cq.sql = <<>> \/ FirstToken(cq.sql) = KwWITH) => cq.result = QueryTypeWrite

\* C8 witness: a lower-case statement behind white space whose first token
\* runs on after the keyword was classified read
C8_Witness ==
  /\ cq.result = QueryTypeRead
  /\ LeadingSpaces(cq.sql) > 0
  /\ FirstToken(cq.sql) \notin ReadKeywords
  /\ ToUpper(cq.sql) # cq.sql

\* ErrorResponse messages the current group had emitted before the message
\* just handled
ErrorsBefore == grpErr - Count(out, "ErrorResponse")

\* C11: in an extended-query group, once a message has produced an
\* ErrorResponse every later non-Sync message of the group is ignored: it gets
\* no response and reaches no backend, so the group holds one ErrorResponse.
C11_ErrorSkipsUntilSync ==
  (~grpClosed /\ cur.kind \in ExtendedKinds /\ ErrorsBefore >= 1)
    => /\ out = <<>>
       /\ readerLog = <<>>
       /\ execd = {}
       /\ grpErr = 1

\* the SCRAM step just processed: the session is in the state performSCRAMAuth
\* left it in after reading the client's message
AfterClientFirst == authLog.step = "first" /\ cur.kind = "SASLInitialResponse"

AfterClientFinal == authLog.step = "final" /\ cur.kind = "SASLResponse"

\* the proof a client derives from password in the exchange the log records
ProofOf(log, password) ==
  XorBytes(ClientKey(password),
           HmacSha256(ClientKey(password),
                      AuthMessage(log.server, GetUser(users, log.server.user).user,
                                  log.msg)))

\* the client-final-message of the log carries the proof derived from the
\* password of the user in the store
CorrectProof(log) ==
  LET proof == LastField(log.msg, "p=")
  IN proof.b64ok /\ proof.v = ProofOf(log, Passwords[log.server.user])

\* the rest of the client-final-message of the log is in order: three parts,
\* the combined nonce, a channel binding the proxy accepts
WellFormedFinal(log) ==
  /\ Len(log.msg) >= 3
  /\ LastField(log.msg, "r=").v = log.server.clientNonce \o log.server.serverNonce
  /\ verifyChannelBinding(LastField(log.msg, "c="), tlsState) = ""

FatalAuthError(ms) ==
  \E i \in 1..Len(ms) :
    ms[i].type = "ErrorResponse" /\ ms[i].sev = "FATAL" /\ ms[i].code = "28P01"

\* C12: with a non-empty credential store the session is authenticated
\* (AuthenticationOk sent) exactly when the client-final-message carries the
\* proof derived from the user's password; with any other proof it is not
\* authenticated and the client receives an ErrorResponse with code 28P01.
C12_ProofDecidesAuthentication ==
  AfterClientFinal
    => /\ (CorrectProof(authLog) /\ WellFormedFinal(authLog))
            => (authenticated /\ ClientGot("AuthenticationOk"))
       /\ authenticated => CorrectProof(authLog)
       /\ ~CorrectProof(authLog) => (~authenticated /\ FatalAuthError(out))

\* the errors HandleClientFirst and HandleClientFinal return
ScramErrors ==
  {"invalid client-first-message format", "client nonce not found",
   "invalid client-final-message format", "nonce mismatch",
   "channel binding verification failed", "failed to decode client proof",
   "authentication failed: invalid credentials"}

\* C13: a failure while processing the client-first-message, the
\* client-final-message (nonce, channel binding) or the proof is reported as a
\* FATAL ErrorResponse with code 28P01 before the session is closed.
C13_ScramFailureIsReported ==
  ((AfterClientFirst \/ AfterClientFinal) /\ authLog.outcome \in ScramErrors)
    => (pc = "closed" /\ FatalAuthError(out))

\* C14: a startup user absent from a non-empty credential store is taken
\* through the SCRAM exchange like a known user (AuthenticationSASL is sent and
\* the client-first-message awaited) before authentication fails.
C14_UnknownUserRunsExchange ==
  (cur.kind = "Startup" /\ startupUser # "" /\ users # {} /\ startupUser \notin users)
    => (pc = "saslInitial" /\ out = <<Msg("AuthenticationSASL")>>)

\* the channel binding of the client-final-message just processed passed
\* verifyChannelBinding
ChannelBindingAccepted ==
  /\ AfterClientFinal
  /\ authLog.outcome \notin {"invalid client-final-message format", "nonce mismatch",
                             "channel binding verification failed"}

\* C15: a channel binding is accepted only when it is n,, on a plaintext
\* session, or p=tls-server-end-point followed by the SHA-256 of the server
\* certificate on an encrypted session.
C15_ChannelBindingMatchesTransport ==
  ChannelBindingAccepted
    => LET cb == LastField(authLog.msg, "c=").v
       IN \/ cb = Gs2None /\ ~tlsState.present
          \/ cb = Gs2TlsServerEndPoint \o CertHash(ServerCert) /\ tlsState.present

\* C16: authenticated is set at most once and never cleared, and from
\* AuthenticationOk on the session's user name is the user parameter of its
\* startup message.
C16_AuthenticatedOnceAsStartupUser ==
  /\ [][authenticated => (authenticated' /\ username' = username)]_vars
  /\ [](authenticated => (username # "" /\ username = startupUser))

\* C16 witness: a session authenticated by SCRAM has gone on to prepare a
\* statement and end the group
C16_Witness ==
  /\ authenticated
  /\ authLog.outcome = "ok"
  /\ username = "alice"
  /\ cur.kind = "Sync"
  /\ DOMAIN preparedStmts # {}

\* C17: a session is put in trust mode (AuthenticationOk and ReadyForQuery
\* with no SASL exchange) exactly when the credential store is empty; with a
\* non-empty store the receive loop is entered only after a successful SCRAM
\* exchange.
C17_TrustModeIffEmptyStore ==
  /\ (cur.kind = "Startup" /\ pc = "ready")
       => (users = {} /\ authenticated /\ out = AuthenticationOk)
  /\ (cur.kind = "Startup" /\ startupUser # "" /\ users = {}) => pc = "ready"
  /\ (pc = "ready" /\ users # {})
       => (authenticated /\ authLog.step = "final" /\ authLog.outcome = "ok")

\* C17 witness: a session in trust mode right after its startup message, and
\* behind it a TLS handshake
C17_Witness ==
  /\ cur.kind = "Startup"
  /\ pc = "ready"
  /\ users = {}
  /\ tlsState.present
  /\ out = AuthenticationOk

\* C18: a Parse whose non-empty statement name is already present fails with
\* an error and leaves the statement of that name as it was; a Parse of the
\* unnamed statement succeeds and replaces it.
C18_ReparseOfNamedStatementFails ==
  stmtLog.stage = "parsed"
    => /\ (stmtLog.name # "" /\ stmtLog.name \in DOMAIN stmtLog.before)
            => /\ ClientGot("ErrorResponse")
               /\ preparedStmts = stmtLog.before
       /\ stmtLog.name = ""
            => /\ out = <<Msg("ParseComplete")>>
               /\ preparedStmts[""].query = cur.sql

\* C19 as stated: after Parse of name N and Close of statement N, every name
\* resolves as it did before the Parse.
C19_ParseCloseRestoresLookup ==
  stmtLog.stage = "closed" => preparedStmts = stmtLog.before

\* C19 amended: after Parse of a name N that was not present and Close of
\* statement N, every name resolves as it did before the Parse; when N was
\* present, N resolves to nothing afterwards and every other name as before.
C19_ParseCloseRestoresLookupOfNewName ==
  stmtLog.stage = "closed"
    => /\ stmtLog.name \notin DOMAIN stmtLog.before => preparedStmts = stmtLog.before
       /\ preparedStmts = MapDelete(stmtLog.before, stmtLog.name)

\* C19 witness: a new name was parsed and closed beside another statement
C19_Witness ==
  /\ stmtLog.stage = "closed"
  /\ stmtLog.name \notin DOMAIN stmtLog.before
  /\ DOMAIN stmtLog.before # {}
  /\ cur.kind = "Close"

\* C20: Execute of a read portal with row cap m over a result of n rows: with
\* m = 0 all n rows and CommandComplete; with m > 0 at most m rows,
\* PortalSuspended in place of CommandComplete exactly when n > m, and
\* CommandComplete otherwise; never both for one Execute.
C20_RowCapSuspendsPortal ==
  rp.done
    => /\ Count(rp.reply, "PortalSuspended") + Count(rp.reply, "CommandComplete") <= 1
       /\ rp.o.fail = "none"
            => /\ rp.maxRows = 0
                    => /\ Count(rp.reply, "DataRow") = rp.o.rows
                       /\ Count(rp.reply, "CommandComplete") = 1
               /\ rp.maxRows > 0
                    => /\ Count(rp.reply, "DataRow") <= rp.maxRows
                       /\ Count(rp.reply, "DataRow") <= rp.o.rows
                       /\ Count(rp.reply, "PortalSuspended") = 1
                            <=> rp.o.rows > rp.maxRows
                       /\ Count(rp.reply, "CommandComplete") = 1
                            <=> rp.o.rows <= rp.maxRows

\* C20 witness: a result with rows beyond a positive cap was suspended
C20_Witness ==
  /\ rp.done
  /\ rp.o.fail = "none"
  /\ rp.maxRows > 0
  /\ rp.o.rows > rp.maxRows
  /\ Count(rp.reply, "PortalSuspended") = 1
  /\ Count(rp.reply, "DataRow") = rp.maxRows

\* C21: on a successful fan-out write the CommandComplete sent to the client
\* carries the command tag the first writer returned, on the simple-query and
\* on the extended-query path.
C21_TagOfFirstWriter ==
  (WriteDone /\ ClientGot("CommandComplete"))
    => \E i \in 1..Len(out) :
         out[i].type = "CommandComplete" /\ out[i].text = ExecCommandTag(cur.sql)

BackendDone == pc = "ready" /\ cur.route \in {"reader", "writers"}

\* C25: when the handling of a message returns, every backend connection it
\* opened (the reader's, each writer's) is closed, whatever the outcome, and no
\* connection was closed over a transaction left open: each transaction begun
\* is committed or rolled back.
C25_BackendConnectionsClosed ==
  BackendDone
    => /\ readerConn # "open"
       /\ \A w \in Writers :
            /\ conn[w] # "open"
            /\ ~TxOpen(tx[w])
            /\ Began(w) => (Committed(w) \/ RolledBack(w))

\* C25 witness: a commit failure on the first writer, after which the
\* transaction of another writer was rolled back and all connections closed
C25_Witness ==
  /\ WriteDone
  /\ failedAt = "commit"
  /\ \E w \in Writers : tx[w] = "rolledback"
  /\ \A w \in Writers : conn[w] = "closed"

\* C23: once a reload of the credential manager has succeeded, a session that
\* starts afterwards is authenticated against the newly fetched users: trust
\* mode only if that set is empty, the SCRAM exchange only for a user in it.
C23_StartupConsultsReloadedStore ==
  [][(pc \in {"startup", "startup2"} /\ cur'.kind = "Startup" /\ startupUser' # "")
       => /\ pc' = "ready" <=> cmUsers = {}
          /\ pc' = "saslInitial" <=> startupUser' \in cmUsers]_vars

\* C24: a credential record in the store holds the verifier only (salt,
\* iteration count, StoredKey, ServerKey): the plaintext password is not kept.
C24_PasswordNotRetained ==
  \A u \in users : GetUser(users, u).user.Password = ""

\* the startup packet was refused (not a StartupMessage, or no user in it), or
\* a message of an unsupported type was read in the receive loop
ProtocolViolation ==
  \/ cur.kind = "Unsupported"
  \/ cur.kind = "Startup" /\ startupUser = ""

\* C26: a protocol violation is answered with a FATAL ErrorResponse carrying
\* SQLSTATE 08P01 and the session is closed.
C26_ViolationIsFatal08P01 ==
  ProtocolViolation =>
    /\ pc = "closed"
    /\ Len(out) = 1
    /\ out[1].type = "ErrorResponse" /\ out[1].sev = "FATAL" /\ out[1].code = "08P01"

\* C27: an SSLRequest as first packet is answered with S exactly when client
\* TLS is configured and with N otherwise, and leaves the session unauthenticated
\* and waiting for the startup packet (or closed by a failed handshake); the
\* packet read after it is taken as the startup packet, and one that is not a
\* StartupMessage closes the session without authenticating it.
C27_SSLRequestThenStartup ==
  /\ [](cur.kind = "SSLRequest" =>
          /\ out = <<Msg(IF tlsEnabled THEN "S" ELSE "N")>>
          /\ ~authenticated
          /\ pc = "startup2" \/ (tlsEnabled /\ pc = "closed"))
  /\ [][pc = "startup2" =>
          /\ cur'.kind = "Startup"
          /\ startupUser' = "" => (pc' = "closed" /\ ~authenticated' /\ out' = <<>>)]_vars

C27_Witness ==
  /\ cur.kind = "Startup"
  /\ tlsState.present
  /\ startupUser = ""
  /\ pc = "closed"

\* the last message handled was a simple read that ran to its CommandComplete
SuccessfulSimpleRead ==
  /\ cur.kind = "Query"
  /\ cur.route = "reader"
  /\ Len(out) >= 2
  /\ out[Len(out) - 1].type = "CommandComplete"

\* C28: a successful simple read is answered with RowDescription, then the
\* DataRows, then CommandComplete SELECT n with n the number of DataRows sent,
\* then ReadyForQuery idle, and with nothing else.
C28_SimpleReadMessageOrder ==
  SuccessfulSimpleRead =>
    /\ Len(out) >= 3
    /\ out[1].type = "RowDescription"
    /\ \A i \in 2..(Len(out) - 2) : out[i].type = "DataRow"
    /\ out[Len(out) - 1] = SelectComplete(Len(out) - 3)
    /\ out[Len(out)] = ReadyForQuery

\* C29: a file sealed under a key and opened under the same key gives back the
\* data; opened under a different key, or after it was cut short or changed, it
\* gives an error and no plaintext.
C29_EnvelopeRoundTrip ==
  ef.stage = "opened" =>
    /\ (ef.decKey = ef.encKey /\ ~ef.tampered)
         => (ef.result.err = "" /\ ef.result.plaintext = ef.data)
    /\ (ef.decKey # ef.encKey \/ ef.tampered)
         => (ef.result.err # "" /\ ef.result.plaintext = <<>>)

\* C30: whatever the interleaving of two connections' messages, the
\* prepared-statement and portal lookups of a handler and the reply it wrote
\* last are those of the same handler run alone: a Parse, Bind or Close on the
\* other connection changes none of them.
C30_SessionsIsolated ==
  \A c \in Conns :
    handlers[c].state # "none" =>
      /\ heap[handlers[c].preparedStmts] = handlers[c].alone.preparedStmts
      /\ heap[handlers[c].portals] = handlers[c].alone.portals
      /\ handlers[c].out = handlers[c].alone.out

C30_Witness ==
  /\ handlers["c1"].state = "ready"
  /\ handlers["c2"].state = "ready"
  /\ "s1" \in DOMAIN heap[handlers["c1"].preparedStmts]
  /\ "" \in DOMAIN heap[handlers["c1"].portals]
  /\ handlers["c2"].out = <<ErrorResponse("prepared statement does not exist", "", 0)>>

\* the working set follows the configured order, and within a phase the
\* writers before the loop index have had the phase's operation, the others not
PhasesInOrder ==
  InFanout =>
    /\ \A i, j \in 1..Len(successfulWriters) :
         i < j => successfulWriters[i] < successfulWriters[j]
    /\ \A i \in 1..Len(successfulWriters) :
         LET t == tx[successfulWriters[i]]
         IN /\ pc = "connect" => t = "none"
            /\ pc = "begin" => t = IF i < fi /\ InSeq(successfulWriters[i], writersWithTx)
                                   THEN "open" ELSE "none"
            /\ pc = "exec" => t = IF i < fi THEN "executed" ELSE "open"
            /\ pc = "commit" => t = IF i < fi THEN "committed" ELSE "executed"

\* a writer's transaction goes from BEGIN to the statement to COMMIT, and a
\* COMMIT is sent only when every writer of the working set has executed
StepsInOrder ==
  \A w \in Writers :
    /\ (tx'[w] = "open" /\ tx[w] # "open") => tx[w] = "none"
    /\ (tx'[w] = "executed" /\ tx[w] # "executed") => tx[w] = "open"
    /\ (tx'[w] = "committed" /\ tx[w] # "committed")
         => /\ tx[w] = "executed"
            /\ \A i \in 1..Len(successfulWriters) :
                 tx[successfulWriters[i]] \in {"executed", "committed"}

\* C31: every writer of the working set sees BEGIN, the statement and COMMIT
\* in that order, each phase visits the writers in configured order, and no
\* writer is sent COMMIT before the statement succeeded on all of them.
C31_FanoutPhasesOrdered == []PhasesInOrder /\ [][StepsInOrder]_vars

C31_Witness ==
  /\ pc = "commit"
  /\ fi = 2
  /\ Len(successfulWriters) = NumWriters
  /\ tx[successfulWriters[1]] = "committed"

\* writer w connected and its Begin failed
BeginFailed(w) == InSeq(w, failedWriters) /\ conn[w] # "none"

C33_TimedOutWriterIsSkipped ==
  (pc = "connect" /\ failedWriters # <<>>)
    => ENABLED (FanoutConnect /\ conn'[NextWriter(WriterDSNs, fi)] = "open")

\* C34: a Bind that names a statement the session does not have is answered
\* with one ErrorResponse and no BindComplete and leaves the portal map as it
\* was; a Bind that names an existing statement stores a portal bound to that
\* statement under the destination name and is answered with BindComplete.
C34_BindResolvesStatement ==
  [][stmtLog'.stage = "bound" =>
       IF stmtLog'.name \notin DOMAIN preparedStmts
       THEN /\ Count(out', "ErrorResponse") = 1
            /\ Count(out', "BindComplete") = 0
            /\ portals' = portals
       ELSE /\ out' = <<Msg("BindComplete")>>
            /\ \E p \in PortalNames :
                 /\ p \in DOMAIN portals'
                 /\ portals'[p].name = p
                 /\ portals'[p].stmtName = stmtLog'.name
                 /\ \A q \in PortalNames \ {p} :
                      /\ q \in DOMAIN portals' <=> q \in DOMAIN portals
                      /\ q \in DOMAIN portals => portals'[q] = portals[q]]_vars

C34_Witness ==
  /\ stmtLog.stage = "bound"
  /\ stmtLog.name \notin DOMAIN preparedStmts
  /\ portals # EmptyMap
  /\ Count(out, "ErrorResponse") = 1

\* the session is in or past the receive loop, a message of the loop was
\* handled for it, or a backend connection was opened for it
ServedAsAuthenticated ==
  \/ pc = "ready"
  \/ InFanout
  \/ cur.kind \in {"Query", "Parse", "Bind", "Execute", "Describe", "Close", "Sync"}
  \/ readerConn # "none"
  \/ \E w \in Writers : conn[w] # "none"

\* C35: nothing is done for a session that is not authenticated: no message
\* of the receive loop is handled and no backend connection opened before
\* then, and the receive loop is entered only by the step that sends
\* AuthenticationOk.
C35_NothingBeforeAuthentication ==
  /\ [](ServedAsAuthenticated => authenticated)
  /\ [][(pc \in {"startup", "startup2", "saslInitial", "saslFinal"} /\ pc' = "ready")
          => \E i \in 1..Len(out') : out'[i].type = "AuthenticationOk"]_vars

C35_Witness ==
  /\ cur.kind = "Parse"
  /\ users # {}
  /\ authenticated
  /\ username \in users

\* portal p exists and the statement it names exists
Resolvable(p) == p \in DOMAIN portals /\ portals[p].stmtName \in DOMAIN preparedStmts

\* C36: a portal holds the name of its statement and the statement is looked
\* up when the portal is executed: closing a statement leaves the portals as
\* they are; an Execute that finds no statement is answered with one
\* ErrorResponse and touches no backend; an Execute that runs sends the SQL
\* the statement name has at that moment, routed by that SQL's classification.
C36_PortalResolvedAtExecute ==
  [][pc = "ready" =>
       /\ (cur'.kind = "Close" /\ preparedStmts' # preparedStmts) => portals' = portals
       /\ cur'.kind = "Execute" =>
            /\ (\A p \in PortalNames : ~Resolvable(p)) => cur'.route = "none"
            /\ IF cur'.route = "none"
               THEN /\ \E p \in PortalNames : ~Resolvable(p)
                    /\ Len(out') = 1 /\ out'[1].type = "ErrorResponse"
                    /\ pc' = "ready"
                    /\ readerConn' = "none" /\ readerLog' = <<>>
                    /\ \A w \in Writers : conn'[w] = "none" /\ tx'[w] = "none"
               ELSE /\ \E p \in PortalNames :
                         /\ Resolvable(p)
                         /\ cur'.sql = preparedStmts[portals[p].stmtName].query
                    /\ cur'.route = IF ClassifyQuery(cur'.sql) = QueryTypeRead
                                    THEN "reader" ELSE "writers"
                    /\ cur'.route = "reader" => readerLog' \in {<<>>, <<cur'.sql>>}]_vars

C36_Witness ==
  /\ cur.kind = "Execute"
  /\ cur.route = "none"
  /\ \E p \in DOMAIN portals : portals[p].stmtName \notin DOMAIN preparedStmts
  /\ out = <<ErrorResponse("prepared statement does not exist", "", 0)>>

\* C37: over the Executes of one portal, each continuing after a
\* PortalSuspended, the rows delivered are the rows of the result in order,
\* none twice and none left out.
C37_SuspendedPortalContinues ==
  \A i \in 1..Len(rp.delivered) : rp.delivered[i] = i

\* C38: a reload that failed, at the fetch or while adding a fetched user,
\* leaves the credential manager's users as they were before it, and the
\* reload loop goes on to its next tick.
C38_FailedReloadKeepsStore ==
  reloadLog.outcome \in {"fetch failed", "add failed"} =>
    /\ cmUsers = reloadLog.before
    /\ reloadLog.loop = "running"
    /\ ENABLED Reload

C38_Witness ==
  /\ reloadLog.outcome = "add failed"
  /\ cmUsers = {"alice"}
  /\ users = {"bob"}

\* C39: whatever the length of the proof in a client-final-message, handling
\* it ends either authenticated in the receive loop or with the 28P01
\* ErrorResponse sent and the session closed.
C39_ProofOfAnyLengthIsAnswered ==
  (authLog.step = "final" /\ cur.kind = "SASLResponse") =>
    \/ authLog.outcome = "ok" /\ authenticated /\ pc = "ready"
    \/ /\ authLog.outcome \notin {"ok", "panic"}
       /\ out = <<AuthError>>
       /\ pc = "closed"
       /\ ~authenticated

\* ---------------------------------------------------------------------------
\* Termination of a Query and of the fan-out
\* ---------------------------------------------------------------------------

\* one backend operation of the fan-out returns: ExecuteWriteWithParams blocks
\* only inside connectToBackend, Begin, Exec and Commit, each of them called
\* with the context that handleQuery bounds by the per-query deadline
FanoutStep == FanoutConnect \/ FanoutBegin \/ FanoutExec \/ FanoutCommit

\* the session of Spec in which every backend operation that was started
\* returns or is cut off by the deadline
SpecLive == Spec /\ WF_vars(FanoutStep)

QueryHandled ==
  /\ pc = "ready"
  /\ Len(out) > 0
  /\ out[Len(out)].type = "ReadyForQuery"
  /\ readerConn # "open"
  /\ \A w \in Writers : conn[w] # "open"

\* C40: the handling of every simple Query ends: from any point of it, a state
\* is reached in which ReadyForQuery was the last message sent, every backend
\* connection of the query is closed and the session reads its next message;
\* no fan-out stays in one of its phases for ever.
C40_QueryTerminates ==
  /\ (cur.kind = "Query") ~> QueryHandled
  /\ InFanout ~> ~InFanout

\* C40 witness: the deadline expired during a Query's fan-out with a writer
\* connected, and the handling still ended with ReadyForQuery and that
\* connection closed
C40_Witness ==
  /\ cur.kind = "Query"
  /\ ctxDone
  /\ QueryHandled
  /\ \E w \in Writers : conn[w] = "closed"

====
